---- MODULE Spec2Model ----
(***************************************************************************)
(* State-machine model of the mu_store container family:                   *)
(*   - mu_spsc   : lock-free single-producer/single-consumer ring buffer   *)
(*   - mu_vec    : byte vector, sorted insert and lower-bound search       *)
(*   - mu_pvec   : pointer vector, sorted insert                           *)
(*   - mu_store  : heapsort and binary search                              *)
(* Each part has its own specification over the shared variable list; a    *)
(* specification leaves the variables of the other parts untouched.        *)
(***************************************************************************)
EXTENDS Integers, Sequences, FiniteSets, TLC

VARIABLES
    q,          \* mu_spsc_t: [mask, head, tail, store]
    prod,       \* producer thread: position inside mu_spsc_put and its locals
    cons,       \* consumer thread: position inside mu_spsc_get and its locals
    put_seq,    \* history: items accepted by successful puts, in order
    got_seq,    \* history: items returned by successful gets, in order
    drv,        \* single-threaded caller of whole calls: call counts, last call
    vec,        \* mu_vec_t: [items, capacity, count, item_size]
    pvec,       \* mu_pvec_t: [item_store, capacity, count]
    queue,      \* mu_queue_t: [items, capacity, count, item_size, head, tail]
    pqueue,     \* mu_pqueue_t: [items, capacity, count, head, tail]
    call,       \* the last container call: shell, policy, item, result, state before
    srch,       \* binary search run: the sorted array, the target, the results
    hs,         \* heapsort run: the input, the call made, the array and result after
    pool        \* mu_pool_t and its backing store, the slots handed out, the last call

spscVars    == <<q, prod, cons, put_seq, got_seq, drv>>
shellVars   == <<vec, pvec, queue, pqueue, call>>
algVars     == <<srch, hs, pool>>
vars        == <<q, prod, cons, put_seq, got_seq, drv, vec, pvec, queue, pqueue,
                 call, srch, hs, pool>>

(***************************************************************************)
(* Bounds of the model                                                     *)
(***************************************************************************)
MaxSizeLog2 == 2    \* SPSC store sizes are 2^1 .. 2^MaxSizeLog2
NItems      == 3    \* item values offered to put are 1 .. NItems
MaxPuts     == 5    \* successful puts per behaviour of the threaded model

Pow2(k) == IF k = 0 THEN 1 ELSE IF k = 1 THEN 2 ELSE IF k = 2 THEN 4
           ELSE IF k = 3 THEN 8 ELSE IF k = 4 THEN 16 ELSE 32

StoreSizes == { Pow2(k) : k \in 1..MaxSizeLog2 }
ItemValues == 1..NItems

(***************************************************************************)
(* C integer helpers                                                       *)
(***************************************************************************)
\* bitwise AND of two non-negative integers (the C operator &)
RECURSIVE BitAnd(_, _)
BitAnd(a, b) ==
    IF a = 0 \/ b = 0 THEN 0
    ELSE (a % 2) * (b % 2) + 2 * BitAnd(a \div 2, b \div 2)

IsPrefix(s, t) ==
    /\ Len(s) <= Len(t)
    /\ \A k \in 1..Len(s) : s[k] = t[k]

(***************************************************************************)
(* mu_spsc: result codes and pure call-level functions                     *)
(***************************************************************************)
MU_SPSC_ERR_NONE  == "MU_SPSC_ERR_NONE"
MU_SPSC_ERR_EMPTY == "MU_SPSC_ERR_EMPTY"
MU_SPSC_ERR_FULL  == "MU_SPSC_ERR_FULL"
MU_SPSC_ERR_SIZE  == "MU_SPSC_ERR_SIZE"

NULL == 0           \* the null item pointer

\* #define IS_POWER_OF_TWO(n) (((n) & ((n)-1)) == 0), used for n >= 2 only
IS_POWER_OF_TWO_mut(n) == BitAnd(n, 1) = 0   \* tests that n is even
IS_POWER_OF_TWO(n) == BitAnd(n, n - 1) = 0

\* a reset that leaves the tail where it is
mu_spsc_reset_mut(qq) ==
    [q |-> [qq EXCEPT !.head = 0], err |-> MU_SPSC_ERR_NONE]

\* mu_spsc_reset: head = tail = 0
mu_spsc_reset(qq) ==
    [q |-> [qq EXCEPT !.head = 0, !.tail = 0], err |-> MU_SPSC_ERR_NONE]

\* mu_spsc_init: size check, then store/mask assignment, then reset
mu_spsc_init(qq, store, store_size) ==
    IF (store_size < 2) \/ ~IS_POWER_OF_TWO(store_size)
    THEN [q |-> qq, err |-> MU_SPSC_ERR_SIZE]
    ELSE mu_spsc_reset([qq EXCEPT !.store = store, !.mask = store_size - 1])

\* mu_spsc_capacity: return q->mask
mu_spsc_capacity(qq) == qq.mask

\* (index + 1) & q->mask
spsc_next_index(index, mask) == BitAnd(index + 1, mask)

\* the full test of mu_spsc_put: next_tail == q->head
spsc_is_full_mut(next_tail, head) == FALSE
spsc_is_full(next_tail, head) == next_tail = head

\* the empty test of mu_spsc_get: q->head == q->tail
spsc_is_empty_mut(head, tail) == FALSE
spsc_is_empty(head, tail) == head = tail

\* mu_spsc_put as one uninterrupted call
mu_spsc_put_mut(qq, item) ==
    LET next_tail == spsc_next_index(qq.tail, qq.mask)
        q1        == [qq EXCEPT !.store[qq.tail] = item]
    IN
    IF spsc_is_full(next_tail, qq.head)
    THEN [q |-> q1, err |-> MU_SPSC_ERR_FULL]
    ELSE [q |-> [q1 EXCEPT !.tail = next_tail], err |-> MU_SPSC_ERR_NONE]
mu_spsc_put(qq, item) ==
    LET next_tail == spsc_next_index(qq.tail, qq.mask) IN
    IF spsc_is_full(next_tail, qq.head)
    THEN [q |-> qq, err |-> MU_SPSC_ERR_FULL]
    ELSE [q   |-> [qq EXCEPT !.store[qq.tail] = item, !.tail = next_tail],
          err |-> MU_SPSC_ERR_NONE]

\* mu_spsc_get as one uninterrupted call; item is the value left in *item
mu_spsc_get(qq) ==
    IF spsc_is_empty(qq.head, qq.tail)
    THEN [q |-> qq, item |-> NULL, err |-> MU_SPSC_ERR_EMPTY]
    ELSE [q    |-> [qq EXCEPT !.head = spsc_next_index(qq.head, qq.mask)],
          item |-> qq.store[qq.head],
          err  |-> MU_SPSC_ERR_NONE]

\* a mu_spsc_t before mu_spsc_init, and a zero-filled caller-owned store
BlankQ == [mask |-> 0, head |-> 0, tail |-> 0, store |-> <<>>]
BlankStore(n) == [i \in 0..(n - 1) |-> NULL]

(***************************************************************************)
(* mu_spsc: producer and consumer threads, one memory access per step      *)
(***************************************************************************)
NoEarly == <<>>     \* no speculatively loaded slot value; <<v>> holds value v
DrvUnused == <<>>   \* value of drv where no single-threaded caller runs

\* the parts of the state that a specification does not use
SpscUnused ==
    /\ q = BlankQ
    /\ prod = <<>>
    /\ cons = <<>>
    /\ put_seq = <<>>
    /\ got_seq = <<>>
    /\ drv = DrvUnused
ShellUnused ==
    /\ vec = <<>>
    /\ pvec = <<>>
    /\ queue = <<>>
    /\ pqueue = <<>>
    /\ call = <<>>
AlgUnused ==
    /\ srch = <<>>
    /\ hs = <<>>
    /\ pool = <<>>

ProdIdle == [pc |-> "idle", item |-> NULL, next_tail |-> 0, idx |-> 0,
             err |-> MU_SPSC_ERR_NONE]
ConsIdle == [pc |-> "idle", h |-> 0, idx |-> 0, item |-> NULL,
             early |-> NoEarly, err |-> MU_SPSC_ERR_NONE]

InitSpsc ==
    /\ \E n \in StoreSizes : q = mu_spsc_init(BlankQ, BlankStore(n), n).q
    /\ prod = ProdIdle
    /\ cons = ConsIdle
    /\ put_seq = <<>>
    /\ got_seq = <<>>
    /\ drv = DrvUnused
    /\ ShellUnused
    /\ AlgUnused

\* mu_spsc_put line 70: load q->tail, compute next_tail
PutLoadTail ==
    /\ prod.pc = "idle"
    /\ Len(put_seq) < MaxPuts
    /\ \E item \in ItemValues :
          prod' = [prod EXCEPT !.pc = "p_check", !.item = item,
                               !.next_tail = spsc_next_index(q.tail, q.mask)]
    /\ UNCHANGED <<q, cons, put_seq, got_seq, drv>>
    /\ UNCHANGED <<shellVars, algVars>>

\* a put that waits for a free slot instead of returning FULL
PutCheckFull_mut ==
    /\ prod.pc = "p_check"
    /\ ~spsc_is_full(prod.next_tail, q.head)
    /\ prod' = [prod EXCEPT !.pc = "p_index"]
    /\ UNCHANGED <<q, cons, put_seq, got_seq, drv>>
    /\ UNCHANGED <<shellVars, algVars>>

\* mu_spsc_put lines 72-74: load q->head, return FULL when next_tail == head
PutCheckFull ==
    /\ prod.pc = "p_check"
    /\ IF spsc_is_full(prod.next_tail, q.head)
       THEN prod' = [prod EXCEPT !.pc = "idle", !.err = MU_SPSC_ERR_FULL]
       ELSE prod' = [prod EXCEPT !.pc = "p_index"]
    /\ UNCHANGED <<q, cons, put_seq, got_seq, drv>>
    /\ UNCHANGED <<shellVars, algVars>>

\* mu_spsc_put line 76: load q->tail as the slot index
PutLoadIndex ==
    /\ prod.pc = "p_index"
    /\ prod' = [prod EXCEPT !.pc = "p_store", !.idx = q.tail]
    /\ UNCHANGED <<q, cons, put_seq, got_seq, drv>>
    /\ UNCHANGED <<shellVars, algVars>>

\* mu_spsc_put line 76: q->store[tail] = item
PutStoreSlot_mut ==
    /\ prod.pc = "p_store"
    /\ q' = [q EXCEPT !.tail = prod.next_tail]
    /\ prod' = [prod EXCEPT !.pc = "p_publish"]
    /\ UNCHANGED <<cons, put_seq, got_seq, drv>>
    /\ UNCHANGED <<shellVars, algVars>>
PutStoreSlot ==
    /\ prod.pc = "p_store"
    /\ q' = [q EXCEPT !.store[prod.idx] = prod.item]
    /\ prod' = [prod EXCEPT !.pc = "p_publish"]
    /\ UNCHANGED <<cons, put_seq, got_seq, drv>>
    /\ UNCHANGED <<shellVars, algVars>>

\* mu_spsc_put lines 78-80: release store of q->tail, return NONE
PutPublishTail ==
    /\ prod.pc = "p_publish"
    /\ q' = [q EXCEPT !.tail = prod.next_tail]
    /\ prod' = [prod EXCEPT !.pc = "idle", !.err = MU_SPSC_ERR_NONE]
    /\ put_seq' = Append(put_seq, prod.item)
    /\ UNCHANGED <<cons, got_seq, drv>>
    /\ UNCHANGED <<shellVars, algVars>>

\* mu_spsc_get line 87: load q->head
GetLoadHead ==
    /\ cons.pc = "idle"
    /\ cons' = [cons EXCEPT !.pc = "g_check", !.h = q.head, !.early = NoEarly]
    /\ UNCHANGED <<q, prod, put_seq, got_seq, drv>>
    /\ UNCHANGED <<shellVars, algVars>>

\* mu_spsc_get lines 87-90: load q->tail, return EMPTY when head == tail
GetCheckEmpty ==
    /\ cons.pc = "g_check"
    /\ IF spsc_is_empty(cons.h, q.tail)
       THEN cons' = [cons EXCEPT !.pc = "idle", !.item = NULL,
                                 !.early = NoEarly,
                                 !.err = MU_SPSC_ERR_EMPTY]
       ELSE cons' = [cons EXCEPT !.pc = "g_index"]
    /\ UNCHANGED <<q, prod, put_seq, got_seq, drv>>
    /\ UNCHANGED <<shellVars, algVars>>

\* mu_spsc_get line 92: load q->head as the slot index
GetLoadIndex ==
    /\ cons.pc = "g_index"
    /\ cons' = [cons EXCEPT !.pc = "g_load", !.idx = q.head]
    /\ UNCHANGED <<q, prod, put_seq, got_seq, drv>>
    /\ UNCHANGED <<shellVars, algVars>>

\* mu_spsc_get line 92: *item = q->store[head]; the value is the one the
\* load obtained, which is the speculated one when the load ran early
GetLoadSlot ==
    /\ cons.pc = "g_load"
    /\ cons' = [cons EXCEPT !.pc = "g_next",
                            !.item = IF cons.early = NoEarly
                                     THEN q.store[cons.idx]
                                     ELSE cons.early[1],
                            !.early = NoEarly]
    /\ UNCHANGED <<q, prod, put_seq, got_seq, drv>>
    /\ UNCHANGED <<shellVars, algVars>>

\* mu_spsc_get line 94: load q->head for the new head value
GetLoadNext ==
    /\ cons.pc = "g_next"
    /\ cons' = [cons EXCEPT !.pc = "g_publish", !.h = q.head]
    /\ UNCHANGED <<q, prod, put_seq, got_seq, drv>>
    /\ UNCHANGED <<shellVars, algVars>>

\* mu_spsc_get lines 94-96: release store of q->head, return NONE
GetPublishHead_mut ==
    /\ cons.pc = "g_publish"
    /\ q' = [q EXCEPT !.head = spsc_next_index(cons.h, q.mask),
                      !.store[cons.idx] = NULL]
    /\ cons' = [cons EXCEPT !.pc = "idle", !.err = MU_SPSC_ERR_NONE]
    /\ got_seq' = Append(got_seq, cons.item)
    /\ UNCHANGED <<prod, put_seq, drv>>
    /\ UNCHANGED <<shellVars, algVars>>
GetPublishHead ==
    /\ cons.pc = "g_publish"
    /\ q' = [q EXCEPT !.head = spsc_next_index(cons.h, q.mask)]
    /\ cons' = [cons EXCEPT !.pc = "idle", !.err = MU_SPSC_ERR_NONE]
    /\ got_seq' = Append(got_seq, cons.item)
    /\ UNCHANGED <<prod, put_seq, drv>>
    /\ UNCHANGED <<shellVars, algVars>>

Producer == PutLoadTail \/ PutCheckFull \/ PutLoadIndex \/ PutStoreSlot
            \/ PutPublishTail
Consumer == GetLoadHead \/ GetCheckEmpty \/ GetLoadIndex \/ GetLoadSlot
            \/ GetLoadNext \/ GetPublishHead

Init == InitSpsc
Next == Producer \/ Consumer
Spec == Init /\ [][Next]_vars

(***************************************************************************)
(* mu_spsc on a machine that may satisfy a plain load early.  The loads of *)
(* q->tail (line 87) and of q->store[q->head] (line 92) are plain volatile *)
(* loads of different locations with no acquire ordering between them, so  *)
(* the slot load may be satisfied before the tail load.  The release       *)
(* stores of lines 78 and 94 keep every earlier access of their own thread *)
(* before them, so the steps of the producer stay in program order.        *)
(***************************************************************************)
GetSpeculateSlot ==
    /\ cons.pc = "g_check"
    /\ cons.early = NoEarly
    /\ cons' = [cons EXCEPT !.early = <<q.store[cons.h]>>]
    /\ UNCHANGED <<q, prod, put_seq, got_seq, drv>>
    /\ UNCHANGED <<shellVars, algVars>>

NextWeak == Producer \/ Consumer \/ GetSpeculateSlot
SpecWeak == Init /\ [][NextWeak]_vars

(***************************************************************************)
(* mu_spsc driven by one thread that makes whole calls, as the unit tests  *)
(* do.  The k-th put call offers item k.                                   *)
(***************************************************************************)
MaxCalls(qq) == 2 * (qq.mask + 1) + 2

NoCall == [op |-> "none", err |-> MU_SPSC_ERR_NONE, item |-> NULL]

\* "filling": only puts so far; "draining": puts up to a FULL, then only gets
DrvPhaseAfter(phase, op, last) ==
    IF op = "put"
    THEN IF phase = "filling" THEN "filling" ELSE "mixed"
    ELSE IF phase = "filling" /\ last.op = "put" /\ last.err = MU_SPSC_ERR_FULL
         THEN "draining"
         ELSE IF phase = "draining" THEN "draining" ELSE "mixed"

InitSeq ==
    /\ \E n \in StoreSizes : q = mu_spsc_init(BlankQ, BlankStore(n), n).q
    /\ prod = ProdIdle
    /\ cons = ConsIdle
    /\ put_seq = <<>>
    /\ got_seq = <<>>
    /\ drv = [phase |-> "filling", puts |-> 0, gets |-> 0, last |-> NoCall,
              fails |-> {}]
    /\ ShellUnused
    /\ AlgUnused

SeqPut ==
    /\ drv.puts + drv.gets < MaxCalls(q)
    /\ LET item == drv.puts + 1
           r    == mu_spsc_put(q, item)
       IN /\ q' = r.q
          /\ put_seq' = IF r.err = MU_SPSC_ERR_NONE
                        THEN Append(put_seq, item) ELSE put_seq
          /\ drv' = [phase |-> DrvPhaseAfter(drv.phase, "put", drv.last),
                     puts  |-> drv.puts + 1,
                     gets  |-> drv.gets,
                     last  |-> [op |-> "put", err |-> r.err, item |-> item],
                     fails |-> IF r.err = MU_SPSC_ERR_NONE THEN drv.fails
                               ELSE drv.fails \cup {r.err}]
    /\ UNCHANGED <<prod, cons, got_seq>>
    /\ UNCHANGED <<shellVars, algVars>>

SeqGet ==
    /\ drv.puts + drv.gets < MaxCalls(q)
    /\ LET r == mu_spsc_get(q)
       IN /\ q' = r.q
          /\ got_seq' = IF r.err = MU_SPSC_ERR_NONE
                        THEN Append(got_seq, r.item) ELSE got_seq
          /\ drv' = [phase |-> DrvPhaseAfter(drv.phase, "get", drv.last),
                     puts  |-> drv.puts,
                     gets  |-> drv.gets + 1,
                     last  |-> [op |-> "get", err |-> r.err, item |-> r.item],
                     fails |-> IF r.err = MU_SPSC_ERR_NONE THEN drv.fails
                               ELSE drv.fails \cup {r.err}]
    /\ UNCHANGED <<prod, cons, put_seq>>
    /\ UNCHANGED <<shellVars, algVars>>

NextSeq == SeqPut \/ SeqGet
SpecSeq == InitSeq /\ [][NextSeq]_vars

(***************************************************************************)
(* mu_spsc set up and reset by one thread: mu_spsc_init with any size,     *)
(* mu_spsc_reset at any time, whole put and get calls in between           *)
(***************************************************************************)
MaxInitSize  == 9   \* mu_spsc_init is called with store_size 0 .. MaxInitSize
MaxFreshPuts == 2   \* put calls made between two calls of init or reset

NoSetupCall == [op |-> "none", err |-> MU_SPSC_ERR_NONE, store_size |-> 0,
                fresh |-> FALSE, pre |-> BlankQ]

\* the call left the queue freshly set up: reset, or init that returned NONE
LeavesFresh(op, err) ==
    op = "reset" \/ (op = "init" /\ err = MU_SPSC_ERR_NONE)

InitSetup ==
    /\ q = BlankQ
    /\ prod = <<>>
    /\ cons = <<>>
    /\ put_seq = <<>>
    /\ got_seq = <<>>
    /\ drv = [last |-> NoSetupCall, puts |-> 0]
    /\ ShellUnused
    /\ AlgUnused

\* mu_spsc_init(&q, store, store_size); the store is zero-filled, or is the
\* store the queue already uses when the size is the same
SetupInit ==
    /\ \E store_size \in 0..MaxInitSize :
       \E store \in {BlankStore(store_size)}
                    \cup (IF q.mask + 1 = store_size /\ q.mask # 0
                          THEN {q.store} ELSE {}) :
          LET r == mu_spsc_init(q, store, store_size) IN
          /\ q' = r.q
          /\ drv' = [last |-> [op |-> "init", err |-> r.err,
                               store_size |-> store_size,
                               fresh |-> FALSE, pre |-> q],
                     puts |-> IF r.err = MU_SPSC_ERR_NONE THEN 0 ELSE drv.puts]
    /\ UNCHANGED <<prod, cons, put_seq, got_seq>>
    /\ UNCHANGED <<shellVars, algVars>>

\* mu_spsc_reset(&q) on a queue that was set up
SetupReset ==
    /\ q.mask # 0
    /\ LET r == mu_spsc_reset(q) IN
          /\ q' = r.q
          /\ drv' = [last |-> [op |-> "reset", err |-> r.err, store_size |-> 0,
                               fresh |-> FALSE, pre |-> q],
                     puts |-> 0]
    /\ UNCHANGED <<prod, cons, put_seq, got_seq>>
    /\ UNCHANGED <<shellVars, algVars>>

SetupPut ==
    /\ q.mask # 0
    /\ drv.puts < MaxFreshPuts
    /\ \E item \in ItemValues :
          LET r == mu_spsc_put(q, item) IN
          /\ q' = r.q
          /\ drv' = [last |-> [op |-> "put", err |-> r.err, store_size |-> 0,
                               fresh |-> FALSE, pre |-> q],
                     puts |-> drv.puts + 1]
    /\ UNCHANGED <<prod, cons, put_seq, got_seq>>
    /\ UNCHANGED <<shellVars, algVars>>

\* fresh: the call before this get was a reset or a successful init
SetupGet ==
    /\ q.mask # 0
    /\ LET r == mu_spsc_get(q) IN
          /\ q' = r.q
          /\ drv' = [last |-> [op |-> "get", err |-> r.err, store_size |-> 0,
                               fresh |-> LeavesFresh(drv.last.op, drv.last.err),
                               pre |-> q],
                     puts |-> drv.puts]
    /\ UNCHANGED <<prod, cons, put_seq, got_seq>>
    /\ UNCHANGED <<shellVars, algVars>>

NextSetup == SetupInit \/ SetupReset \/ SetupPut \/ SetupGet
SpecSetup == InitSetup /\ [][NextSetup]_vars

(***************************************************************************)
(* mu_spsc with a third party that calls mu_spsc_reset: either while the   *)
(* producer and the consumer are known to be outside their calls, or at    *)
(* any time, its two stores interleaved with the steps of the two threads. *)
(* It calls once; a behaviour is followed up to the first item that comes  *)
(* out of order.                                                           *)
(***************************************************************************)
MaxResetPuts == 3   \* a put starts while fewer items than this are accepted

ResetIdle == [pc |-> "idle", called |-> FALSE, unsafe |-> FALSE]

InitReset ==
    /\ \E n \in StoreSizes : q = mu_spsc_init(BlankQ, BlankStore(n), n).q
    /\ prod = ProdIdle
    /\ cons = ConsIdle
    /\ put_seq = <<>>
    /\ got_seq = <<>>
    /\ drv = ResetIdle
    /\ ShellUnused
    /\ AlgUnused

\* mu_spsc_reset while both threads are outside mu_spsc_put and mu_spsc_get
\* and stay there until it returns; the items still queued are given up
ResetQuiescent ==
    /\ drv.pc = "idle"
    /\ ~drv.called
    /\ prod.pc = "idle"
    /\ cons.pc = "idle"
    /\ q' = mu_spsc_reset(q).q
    /\ put_seq' = got_seq
    /\ drv' = [drv EXCEPT !.called = TRUE]
    /\ UNCHANGED <<prod, cons, got_seq>>
    /\ UNCHANGED <<shellVars, algVars>>

\* mu_spsc_reset line 57 at any time: q->head = 0
ResetStoreHead ==
    /\ drv.pc = "idle"
    /\ ~drv.called
    /\ q' = [q EXCEPT !.head = 0]
    /\ put_seq' = got_seq
    /\ drv' = [pc |-> "r_tail", called |-> TRUE, unsafe |-> TRUE]
    /\ UNCHANGED <<prod, cons, got_seq>>
    /\ UNCHANGED <<shellVars, algVars>>

\* mu_spsc_reset line 58: q->tail = 0, return
ResetStoreTail ==
    /\ drv.pc = "r_tail"
    /\ q' = [q EXCEPT !.tail = 0]
    /\ drv' = [drv EXCEPT !.pc = "idle"]
    /\ UNCHANGED <<prod, cons, put_seq, got_seq>>
    /\ UNCHANGED <<shellVars, algVars>>

\* mu_spsc_put line 70 as in PutLoadTail; the producer offers an item that
\* it has not offered before: numbered from 1 before the reset, from
\* MaxResetPuts + 1 after it
ResetPutLoadTail ==
    /\ prod.pc = "idle"
    /\ Len(put_seq) < MaxResetPuts
    /\ prod' = [prod EXCEPT !.pc = "p_check",
                            !.item = Len(put_seq) + 1
                                     + (IF drv.called THEN MaxResetPuts ELSE 0),
                            !.next_tail = spsc_next_index(q.tail, q.mask)]
    /\ UNCHANGED <<q, cons, put_seq, got_seq, drv>>
    /\ UNCHANGED <<shellVars, algVars>>

\* the two threads of Spec; the caller of reset is a third party
ResetProducer ==
    \/ ResetPutLoadTail
    \/ PutCheckFull \/ PutLoadIndex \/ PutStoreSlot \/ PutPublishTail

InOrderSoFar == IsPrefix(got_seq, put_seq)

NextReset ==
    /\ InOrderSoFar
    /\ \/ ResetQuiescent \/ ResetStoreHead \/ ResetStoreTail
       \/ ResetProducer \/ Consumer
SpecReset == InitReset /\ [][NextReset]_vars

(***************************************************************************)
(* Properties of mu_spsc                                                   *)
(***************************************************************************)
\* the slots that hold items not yet consumed: head, head+1, .. tail-1
LiveSlots(qq) ==
    LET n == BitAnd(qq.tail + (qq.mask + 1) - qq.head, qq.mask)
    IN { BitAnd(qq.head + k, qq.mask) : k \in 0..(n - 1) }

\* C1: with one producer and one consumer, in every interleaving of their
\* memory accesses the items returned by successful gets are a prefix of
\* the items accepted by successful puts (nothing lost, duplicated or
\* reordered), also after the indices have wrapped around the store.
C1_FifoPrefix == IsPrefix(got_seq, put_seq)

\* C1 witness: the consumer has got at least two full rounds of the store
C1_Witness == Len(got_seq) >= 2 * (q.mask + 1) /\ IsPrefix(got_seq, put_seq)

\* C4: put writes store[tail] before it publishes the new tail and get reads
\* store[head] before it publishes the new head; so the consumer only loads
\* a slot that holds the completely written item of the matching put, and
\* the producer only stores into a slot that holds no unconsumed item.
C4_SlotBeforeIndex ==
    [][ /\ (q'.tail # q.tail) =>
              (q.store[q.tail] = prod.item /\ q'.store = q.store)
        /\ (q'.head # q.head) =>
              (cons.item = q.store[q.head] /\ q'.store = q.store)
        /\ (cons.pc = "g_load" /\ cons'.pc = "g_next") =>
              /\ Len(put_seq) > Len(got_seq)
              /\ q.store[cons.idx] = put_seq[Len(got_seq) + 1]
              /\ cons.idx \in LiveSlots(q)
              /\ ~(prod.pc = "p_store" /\ prod.idx = cons.idx)
        /\ (prod.pc = "p_store" /\ prod'.pc = "p_publish") =>
              /\ prod.idx \notin LiveSlots(q)
              /\ ~(cons.pc = "g_load" /\ cons.idx = prod.idx)
      ]_vars

\* C4 witness: the producer is about to store into a slot while the consumer
\* is about to load one, after the tail index has wrapped around the store
C4_Witness ==
    /\ prod.pc = "p_store"
    /\ cons.pc = "g_load"
    /\ Len(put_seq) >= q.mask + 1

\* C8: a get that has observed the updated tail holds exactly the item that
\* the matching put wrote, also when plain loads of different locations may
\* be satisfied out of program order.
C8_GetSeesPutValue ==
    (cons.pc \in {"g_next", "g_publish"}) =>
        /\ Len(put_seq) > Len(got_seq)
        /\ cons.item = put_seq[Len(got_seq) + 1]

\* C9: from the empty buffer of store size N exactly N-1 consecutive puts
\* succeed and the next put returns FULL; then exactly N-1 gets succeed and
\* return the items in insertion order and the next get returns EMPTY;
\* mu_spsc_capacity is N-1.
C9_FillThenDrain ==
    LET N == q.mask + 1 IN
    /\ mu_spsc_capacity(q) = N - 1
    /\ (drv.phase = "filling" /\ drv.puts >= 1) =>
          /\ (drv.puts <= N - 1) =>
                (drv.last.err = MU_SPSC_ERR_NONE /\ Len(put_seq) = drv.puts)
          /\ (drv.puts >= N) =>
                (drv.last.err = MU_SPSC_ERR_FULL /\ Len(put_seq) = N - 1)
    /\ (drv.phase = "draining") =>
          /\ Len(put_seq) = N - 1
          /\ (drv.gets <= N - 1) =>
                /\ drv.last.err = MU_SPSC_ERR_NONE
                /\ drv.last.item = put_seq[drv.gets]
                /\ got_seq = SubSeq(put_seq, 1, drv.gets)
          /\ (drv.gets >= N) =>
                (drv.last.err = MU_SPSC_ERR_EMPTY /\ got_seq = put_seq)

\* C9 witness: filled to FULL, drained to EMPTY, store size above 2
C9_Witness ==
    /\ drv.phase = "draining"
    /\ q.mask >= 3
    /\ drv.gets = q.mask + 1
    /\ drv.last.err = MU_SPSC_ERR_EMPTY

\* C10: a put on a full buffer (((tail + 1) & mask) == head) returns FULL, a
\* get on an empty buffer (head == tail) returns EMPTY, and such a call
\* leaves head, tail and every store slot unchanged.
C10_FailedCallNoChange ==
    [][ (drv'.puts + drv'.gets = drv.puts + drv.gets + 1) =>
          /\ (drv'.last.op = "put") =>
                /\ (BitAnd(q.tail + 1, q.mask) = q.head)
                      <=> (drv'.last.err = MU_SPSC_ERR_FULL)
                /\ (drv'.last.err = MU_SPSC_ERR_FULL) => (q' = q)
          /\ (drv'.last.op = "get") =>
                /\ (q.head = q.tail) <=> (drv'.last.err = MU_SPSC_ERR_EMPTY)
                /\ (drv'.last.err = MU_SPSC_ERR_EMPTY) => (q' = q)
      ]_vars

\* C10 witness: both a put on a full buffer and a get on an empty buffer
\* have been made, after items went through the buffer
C10_Witness ==
    /\ drv.fails = {MU_SPSC_ERR_FULL, MU_SPSC_ERR_EMPTY}
    /\ Len(got_seq) >= 1

\* C11: q->head is written only by the publishing step of mu_spsc_get and
\* q->tail only by the publishing step of mu_spsc_put; no step of a put,
\* whether the put ends with NONE or FULL, changes head, and no step of a
\* get, whether it ends with NONE or EMPTY, changes tail or a store slot.
C11_SingleWriter ==
    [][ /\ (q'.head # q.head) => (cons.pc = "g_publish" /\ prod' = prod)
        /\ (q'.tail # q.tail) => (prod.pc = "p_publish" /\ cons' = cons)
        /\ (q'.store # q.store) => (prod.pc = "p_store" /\ cons' = cons)
        /\ (prod' # prod) => (q'.head = q.head)
        /\ (cons' # cons) => (q'.tail = q.tail /\ q'.store = q.store)
        /\ q'.mask = q.mask ]_vars

\* C11 witness: a put has ended with FULL, gets have returned items, and a
\* get is about to write head while the producer is inside another put
C11_Witness ==
    /\ prod.err = MU_SPSC_ERR_FULL
    /\ prod.pc = "p_store"
    /\ cons.pc = "g_publish"
    /\ Len(got_seq) >= 1

\* n is 2^k for some k
IsPowerOfTwo(n) == \E k \in 0..n : 2^k = n

\* C19: mu_spsc_init returns MU_SPSC_ERR_SIZE unless store_size >= 2 and
\* store_size is a power of two; with a valid size it returns NONE and
\* leaves head = tail = 0 and capacity store_size - 1; mu_spsc_reset sets
\* head = tail = 0 whatever was stored; the get that follows either of
\* them returns EMPTY.
C19_InitAndReset ==
    /\ drv.last.op = "init" =>
          /\ drv.last.err \in {MU_SPSC_ERR_SIZE, MU_SPSC_ERR_NONE}
          /\ drv.last.err = MU_SPSC_ERR_SIZE
                <=> ~(drv.last.store_size >= 2 /\ IsPowerOfTwo(drv.last.store_size))
          /\ drv.last.err = MU_SPSC_ERR_NONE =>
                /\ q.head = 0
                /\ q.tail = 0
                /\ mu_spsc_capacity(q) = drv.last.store_size - 1
    /\ drv.last.op = "reset" =>
          /\ drv.last.err = MU_SPSC_ERR_NONE
          /\ q.head = 0
          /\ q.tail = 0
    /\ (drv.last.op = "get" /\ drv.last.fresh) =>
          (drv.last.err = MU_SPSC_ERR_EMPTY /\ q = drv.last.pre)

\* C19 witness: a get has returned EMPTY right after a reset, with the item
\* of an earlier put still in the store
C19_Witness ==
    /\ drv.last.op = "get"
    /\ drv.last.fresh
    /\ drv.last.err = MU_SPSC_ERR_EMPTY
    /\ \E i \in 0..q.mask : q.store[i] # NULL

\* the position of a thread inside its call, counted in steps from the start
PcRank(pc) ==
    CASE pc = "idle"      -> 0
      [] pc = "p_check"   -> 1
      [] pc = "p_index"   -> 2
      [] pc = "p_store"   -> 3
      [] pc = "p_publish" -> 4
      [] pc = "g_check"   -> 1
      [] pc = "g_index"   -> 2
      [] pc = "g_load"    -> 3
      [] pc = "g_next"    -> 4
      [] pc = "g_publish" -> 5

\* C20: mu_spsc_put and mu_spsc_get never block.  A thread that is inside a
\* call can take its next step in every reachable state, whatever the other
\* thread has or has not done; each of its steps moves it one position on
\* or ends the call, so that a put ends within 5 and a get within 6 own
\* steps; a call that ends returns NONE or FULL (put), NONE or EMPTY (get).
C20_NonBlocking ==
    /\ [](/\ prod.pc # "idle" => ENABLED Producer
          /\ cons.pc # "idle" => ENABLED Consumer)
    /\ [][/\ prod' # prod =>
                /\ cons' = cons
                /\ \/ PcRank(prod'.pc) = PcRank(prod.pc) + 1
                   \/ /\ prod.pc # "idle"
                      /\ prod'.pc = "idle"
                      /\ prod'.err \in {MU_SPSC_ERR_NONE, MU_SPSC_ERR_FULL}
          /\ cons' # cons =>
                /\ prod' = prod
                /\ \/ PcRank(cons'.pc) = PcRank(cons.pc) + 1
                   \/ /\ cons.pc # "idle"
                      /\ cons'.pc = "idle"
                      /\ cons'.err \in {MU_SPSC_ERR_NONE, MU_SPSC_ERR_EMPTY}]_vars

\* C20 witness: a put has returned FULL while the consumer stands in the
\* middle of a get, before its load of the slot
C20_Witness ==
    /\ prod.pc = "idle"
    /\ prod.err = MU_SPSC_ERR_FULL
    /\ cons.pc = "g_load"
    /\ Len(got_seq) >= 1

\* C21: FIFO holds when mu_spsc_reset runs only while producer and consumer
\* are both outside their calls: the items returned are then, in order, the
\* items accepted and not given up by a reset.  (A reset whose stores
\* interleave with a put or a get in progress can break this: C21_Witness.)
C21_QuiescentResetKeepsFifo ==
    ~drv.unsafe => IsPrefix(got_seq, put_seq)

\* C21 witness: after a reset that ran while a put or a get was in
\* progress, a get has returned an item that is not the oldest outstanding
C21_Witness ==
    /\ drv.unsafe
    /\ drv.pc = "idle"
    /\ cons.pc = "idle"
    /\ cons.err = MU_SPSC_ERR_NONE
    /\ ~IsPrefix(got_seq, put_seq)

\* the number of stored items as the indices give it: (tail - head) & mask
\* in 16-bit unsigned arithmetic
SpscStored(qq) == BitAnd((qq.tail - qq.head) % (2^16), qq.mask)

\* C31: in every state of an initialised buffer that is reset only while
\* both threads are outside their calls, head and tail are at most mask,
\* (tail - head) & mask is the number of successful puts minus the number of
\* successful gets since the last reset, and it is at most mask, so one slot
\* of the store is always empty.
C31_SpscOccupancy ==
    ~drv.unsafe =>
        /\ q.head <= q.mask
        /\ q.tail <= q.mask
        /\ SpscStored(q) = Len(put_seq) - Len(got_seq)
        /\ SpscStored(q) <= q.mask
        /\ q.mask = Cardinality(DOMAIN q.store) - 1

\* C31 witness: after a reset that followed a get, the buffer is full again
\* with the tail wrapped around below the head
C31_Witness ==
    /\ drv.called
    /\ ~drv.unsafe
    /\ Len(got_seq) >= 2
    /\ q.tail < q.head
    /\ SpscStored(q) = q.mask

(***************************************************************************)
(* mu_store: result codes, insert policies, and the items of the tests     *)
(***************************************************************************)
NKeys  == 3     \* keys (test_item_t.value) are 1 .. NKeys
NIds   == 2     \* payloads (test_item_t.id) are 1 .. NIds
MaxCap == 3     \* vector capacities are 1 .. MaxCap

MU_STORE_ERR_NONE     == "MU_STORE_ERR_NONE"
MU_STORE_ERR_PARAM    == "MU_STORE_ERR_PARAM"
MU_STORE_ERR_INDEX    == "MU_STORE_ERR_INDEX"
MU_STORE_ERR_NOTFOUND == "MU_STORE_ERR_NOTFOUND"
MU_STORE_ERR_EMPTY    == "MU_STORE_ERR_EMPTY"
MU_STORE_ERR_FULL     == "MU_STORE_ERR_FULL"
MU_STORE_ERR_EXISTS   == "MU_STORE_ERR_EXISTS"
MU_STORE_ERR_INTERNAL == "MU_STORE_ERR_INTERNAL"

MU_STORE_INSERT_ANY       == "MU_STORE_INSERT_ANY"
MU_STORE_INSERT_FIRST     == "MU_STORE_INSERT_FIRST"
MU_STORE_INSERT_LAST      == "MU_STORE_INSERT_LAST"
MU_STORE_UPDATE_FIRST     == "MU_STORE_UPDATE_FIRST"
MU_STORE_UPDATE_LAST      == "MU_STORE_UPDATE_LAST"
MU_STORE_UPDATE_ALL       == "MU_STORE_UPDATE_ALL"
MU_STORE_UPSERT_FIRST     == "MU_STORE_UPSERT_FIRST"
MU_STORE_UPSERT_LAST      == "MU_STORE_UPSERT_LAST"
MU_STORE_INSERT_UNIQUE    == "MU_STORE_INSERT_UNIQUE"
MU_STORE_INSERT_DUPLICATE == "MU_STORE_INSERT_DUPLICATE"

Policies ==
    { MU_STORE_INSERT_ANY, MU_STORE_INSERT_FIRST, MU_STORE_INSERT_LAST,
      MU_STORE_UPDATE_FIRST, MU_STORE_UPDATE_LAST, MU_STORE_UPDATE_ALL,
      MU_STORE_UPSERT_FIRST, MU_STORE_UPSERT_LAST,
      MU_STORE_INSERT_UNIQUE, MU_STORE_INSERT_DUPLICATE }

\* a policy value outside the enum, for the default branch of the switch
PolicyInvalid == "MU_STORE_POLICY_INVALID"

\* The test items live at the addresses 1 .. NKeys * NIds; ObjAt(p) is the
\* test_item_t stored at address p.  NULL (0) is the null pointer.
Pointers == 1..(NKeys * NIds)
ObjAt(p) == [key |-> ((p - 1) \div NIds) + 1, id |-> ((p - 1) % NIds) + 1]
Items    == { ObjAt(p) : p \in Pointers }
NoItem   == [key |-> 0, id |-> 0]   \* bytes of a slot that was never written

\* compare_items_by_value(a, b): a, b point to test_item_t
compare_items_by_value(a, b) ==
    IF a.key < b.key THEN -1 ELSE IF a.key > b.key THEN 1 ELSE 0

\* compare_pointers_by_value(a, b): a, b point to slots that hold pointers
\* to test_item_t; pa, pb are the pointers found in those slots
compare_pointers_by_value(pa, pb) ==
    IF ObjAt(pa).key < ObjAt(pb).key THEN -1
    ELSE IF ObjAt(pa).key > ObjAt(pb).key THEN 1 ELSE 0

(***************************************************************************)
(* mu_vec: vector of fixed-size items, copied in and out by value          *)
(***************************************************************************)
ItemSize == 12      \* sizeof(test_item_t)

NullVec == <<>>     \* the absent handle

\* mu_vec_init: has_v and has_store are FALSE for a NULL v and a NULL
\* item_store; the result is NullVec when NULL is returned
mu_vec_init(has_v, has_store, capacity, item_size) ==
    IF ~has_v \/ ~has_store \/ capacity = 0 \/ item_size = 0
    THEN NullVec
    ELSE [items     |-> [i \in 0..(capacity - 1) |-> NoItem],
          capacity  |-> capacity,
          count     |-> 0,
          item_size |-> item_size]

mu_vec_is_full(v) == IF v = NullVec THEN FALSE ELSE v.count >= v.capacity

\* the loop of sort_find (lines 519-535): binary search for the lower bound
RECURSIVE sort_find_loop_mut(_, _, _, _)
sort_find_loop_mut(v, item, low, high) ==
    IF low < high
    THEN LET mid == low + (high - low) \div 2
             comparison_result == compare_items_by_value(item, v.items[mid])
         IN IF comparison_result < 0
            THEN sort_find_loop_mut(v, item, mid + 1, high)
            ELSE sort_find_loop_mut(v, item, low, mid)
    ELSE low
RECURSIVE sort_find_loop_ub(_, _, _, _)
sort_find_loop_ub(v, item, low, high) ==
    IF low < high
    THEN LET mid == low + (high - low) \div 2
             comparison_result == compare_items_by_value(v.items[mid], item)
         IN IF comparison_result <= 0
            THEN sort_find_loop_ub(v, item, mid + 1, high)
            ELSE sort_find_loop_ub(v, item, low, mid)
    ELSE low
RECURSIVE sort_find_loop(_, _, _, _)
sort_find_loop(v, item, low, high) ==
    IF low < high
    THEN LET mid == low + (high - low) \div 2
             comparison_result == compare_items_by_value(v.items[mid], item)
         IN IF comparison_result < 0
            THEN sort_find_loop(v, item, mid + 1, high)
            ELSE sort_find_loop(v, item, low, mid)
    ELSE low

\* sort_find: lower bound in *index_out, NONE when the item there is equal
sort_find_mut(v, item) ==
    LET low == sort_find_loop(v, item, 0, v.count) IN
    IF v.item_size = 0
    THEN [err |-> MU_STORE_ERR_PARAM, index |-> 0]
    ELSE IF low > 0 /\ compare_items_by_value(v.items[low - 1], item) = 0
         THEN [err |-> MU_STORE_ERR_NONE, index |-> low]
         ELSE [err |-> MU_STORE_ERR_NOTFOUND, index |-> low]
sort_find(v, item) ==
    LET low == sort_find_loop(v, item, 0, v.count) IN
    IF v.item_size = 0
    THEN [err |-> MU_STORE_ERR_PARAM, index |-> 0]
    ELSE IF low < v.count /\ compare_items_by_value(v.items[low], item) = 0
         THEN [err |-> MU_STORE_ERR_NONE, index |-> low]
         ELSE [err |-> MU_STORE_ERR_NOTFOUND, index |-> low]

\* mu_vec_replace: memcpy of the item into slot index
mu_vec_replace_mut(v, index, item) ==
    IF mu_vec_is_full(v)
    THEN [v |-> v, err |-> MU_STORE_ERR_FULL]
    ELSE IF index >= v.count
         THEN [v |-> v, err |-> MU_STORE_ERR_INDEX]
         ELSE [v   |-> [v EXCEPT !.items[index] = item],
               err |-> MU_STORE_ERR_NONE]
mu_vec_replace(v, index, item) ==
    IF index >= v.count
    THEN [v |-> v, err |-> MU_STORE_ERR_INDEX]
    ELSE [v |-> [v EXCEPT !.items[index] = item], err |-> MU_STORE_ERR_NONE]

\* mu_vec_push: memcpy of the item into slot count, count++
mu_vec_push(v, item) ==
    IF mu_vec_is_full(v)
    THEN [v |-> v, err |-> MU_STORE_ERR_FULL]
    ELSE [v   |-> [v EXCEPT !.items[v.count] = item, !.count = v.count + 1],
          err |-> MU_STORE_ERR_NONE]

\* mu_vec_insert: memmove of slots index..count-1 one slot up, memcpy, count++
mu_vec_insert(v, index, item) ==
    IF mu_vec_is_full(v) THEN [v |-> v, err |-> MU_STORE_ERR_FULL]
    ELSE IF index > v.count THEN [v |-> v, err |-> MU_STORE_ERR_INDEX]
    ELSE IF index = v.count THEN mu_vec_push(v, item)
    ELSE [v   |-> [v EXCEPT
                     !.items = [i \in 0..(v.capacity - 1) |->
                                  IF i = index THEN item
                                  ELSE IF i > index /\ i <= v.count
                                       THEN v.items[i - 1]
                                       ELSE v.items[i]],
                     !.count = v.count + 1],
          err |-> MU_STORE_ERR_NONE]

\* the while loops of lines 375, 403 and 454: step over the equal items
vec_scan_equal_mut(v, item, current_idx) ==
    IF current_idx < v.count
       /\ compare_items_by_value(v.items[current_idx], item) = 0
    THEN current_idx + 1
    ELSE current_idx
RECURSIVE vec_scan_equal(_, _, _)
vec_scan_equal(v, item, current_idx) ==
    IF current_idx < v.count
       /\ compare_items_by_value(v.items[current_idx], item) = 0
    THEN vec_scan_equal(v, item, current_idx + 1)
    ELSE current_idx

\* the while loop of lines 423-431: memcpy over each equal item
RECURSIVE vec_update_all(_, _, _)
vec_update_all(v, item, current_idx) ==
    IF current_idx < v.count
       /\ compare_items_by_value(v.items[current_idx], item) = 0
    THEN vec_update_all([v EXCEPT !.items[current_idx] = item], item,
                        current_idx + 1)
    ELSE v

\* mu_vec_sorted_insert(v, item_in, compare_items_by_value, policy);
\* item_in is the address of the caller's item, NULL when absent
mu_vec_sorted_insert(v, item_in, policy) ==
    IF v = NullVec \/ item_in = NULL
    THEN [v |-> v, err |-> MU_STORE_ERR_PARAM]
    ELSE
    LET item     == ObjAt(item_in)
        find     == sort_find(v, item)
        index    == find.index
        found    == find.err = MU_STORE_ERR_NONE
        full     == [v |-> v, err |-> MU_STORE_ERR_FULL]
        notfound == [v |-> v, err |-> MU_STORE_ERR_NOTFOUND]
    IN
    IF find.err # MU_STORE_ERR_NONE /\ find.err # MU_STORE_ERR_NOTFOUND
    THEN [v |-> v, err |-> find.err]
    ELSE CASE policy \in {MU_STORE_INSERT_ANY, MU_STORE_INSERT_FIRST} ->
                IF mu_vec_is_full(v) THEN full
                ELSE mu_vec_insert(v, index, item)
           [] policy = MU_STORE_INSERT_LAST ->
                IF mu_vec_is_full(v) THEN full
                ELSE mu_vec_insert(v,
                        IF found THEN vec_scan_equal(v, item, index)
                        ELSE index,
                        item)
           [] policy = MU_STORE_UPDATE_FIRST ->
                IF ~found THEN notfound
                ELSE mu_vec_replace(v, index, item)
           [] policy = MU_STORE_UPDATE_LAST ->
                IF ~found THEN notfound
                ELSE mu_vec_replace(v, vec_scan_equal(v, item, index) - 1,
                                    item)
           [] policy = MU_STORE_UPDATE_ALL ->
                IF ~found THEN notfound
                ELSE [v   |-> vec_update_all(v, item, index),
                      err |-> MU_STORE_ERR_NONE]
           [] policy = MU_STORE_UPSERT_FIRST ->
                IF found THEN mu_vec_replace(v, index, item)
                ELSE IF mu_vec_is_full(v) THEN full
                ELSE mu_vec_insert(v, index, item)
           [] policy = MU_STORE_UPSERT_LAST ->
                IF found
                THEN mu_vec_replace(v, vec_scan_equal(v, item, index) - 1,
                                    item)
                ELSE IF mu_vec_is_full(v) THEN full
                ELSE mu_vec_insert(v, index, item)
           [] policy = MU_STORE_INSERT_UNIQUE ->
                IF found THEN [v |-> v, err |-> MU_STORE_ERR_EXISTS]
                ELSE IF mu_vec_is_full(v) THEN full
                ELSE mu_vec_insert(v, index, item)
           [] policy = MU_STORE_INSERT_DUPLICATE ->
                IF ~found THEN notfound
                ELSE IF mu_vec_is_full(v) THEN full
                ELSE mu_vec_insert(v, index, item)
           [] OTHER -> [v |-> v, err |-> MU_STORE_ERR_PARAM]

(***************************************************************************)
(* mu_pvec: vector of pointers; the items stay where the caller put them   *)
(***************************************************************************)
NullPvec == <<>>    \* the absent handle

mu_pvec_init(has_v, has_store, capacity) ==
    IF ~has_v \/ ~has_store \/ capacity = 0
    THEN NullPvec
    ELSE [item_store |-> [i \in 0..(capacity - 1) |-> NULL],
          capacity   |-> capacity,
          count      |-> 0]

\* find_upper_bound: first index whose element is greater than item
RECURSIVE find_upper_bound_loop(_, _, _, _)
find_upper_bound_loop(v, item, low, high) ==
    IF low < high
    THEN LET mid == low + (high - low) \div 2
             cmp == compare_pointers_by_value(item, v.item_store[mid])
         IN IF cmp < 0
            THEN find_upper_bound_loop(v, item, low, mid)
            ELSE find_upper_bound_loop(v, item, mid + 1, high)
    ELSE low

find_upper_bound(v, item) == find_upper_bound_loop(v, item, 0, v.count)

\* find_first_insertion_point: scan back from the upper bound over equals
RECURSIVE find_first_insertion_point_mut(_, _, _)
find_first_insertion_point_mut(v, item, upper_bound_pos) ==
    IF upper_bound_pos > 0
       /\ compare_pointers_by_value(item, v.item_store[upper_bound_pos - 1]) >= 0
    THEN find_first_insertion_point_mut(v, item, upper_bound_pos - 1)
    ELSE upper_bound_pos
RECURSIVE find_first_insertion_point(_, _, _)
find_first_insertion_point(v, item, upper_bound_pos) ==
    IF upper_bound_pos > 0
       /\ compare_pointers_by_value(item, v.item_store[upper_bound_pos - 1]) = 0
    THEN find_first_insertion_point(v, item, upper_bound_pos - 1)
    ELSE upper_bound_pos

\* find_first_match_index: scan back from a match over equals
find_first_match_index_mut(v, item, potential_match_idx) ==
    potential_match_idx
RECURSIVE find_first_match_index(_, _, _)
find_first_match_index(v, item, potential_match_idx) ==
    IF potential_match_idx > 0
       /\ compare_pointers_by_value(item,
                                    v.item_store[potential_match_idx - 1]) = 0
    THEN find_first_match_index(v, item, potential_match_idx - 1)
    ELSE potential_match_idx

\* find_last_match_index: scan forward from a match over equals
RECURSIVE find_last_match_index(_, _, _)
find_last_match_index(v, item, potential_match_idx) ==
    IF potential_match_idx < v.count - 1
       /\ compare_pointers_by_value(item,
                                    v.item_store[potential_match_idx + 1]) = 0
    THEN find_last_match_index(v, item, potential_match_idx + 1)
    ELSE potential_match_idx

\* lines 435-446: memmove of slots insert_pos..count-1 one up, store, count++
pvec_perform_insert(v, item, insert_pos) ==
    [v EXCEPT
       !.item_store = [i \in 0..(v.capacity - 1) |->
                         IF i = insert_pos THEN item
                         ELSE IF i > insert_pos /\ i <= v.count
                              THEN v.item_store[i - 1]
                              ELSE v.item_store[i]],
       !.count = v.count + 1]

\* lines 362-365: the for loop of UPDATE_ALL
pvec_update_range(v, item, first_match_idx, last_match_idx) ==
    [v EXCEPT
       !.item_store = [i \in 0..(v.capacity - 1) |->
                         IF i >= first_match_idx /\ i <= last_match_idx
                         THEN item ELSE v.item_store[i]]]

\* mu_pvec_sorted_insert(v, item, compare_pointers_by_value, policy)
mu_pvec_sorted_insert(v, item, policy) ==
    IF v = NullPvec \/ item = NULL
    THEN [v |-> v, err |-> MU_STORE_ERR_PARAM]
    ELSE
    LET bsearch_pos  == find_upper_bound(v, item)
        match_exists ==
            bsearch_pos > 0
            /\ compare_pointers_by_value(item,
                                         v.item_store[bsearch_pos - 1]) = 0
        potential_match_idx == IF match_exists THEN bsearch_pos - 1 ELSE 0
        first_match_idx ==
            find_first_match_index(v, item, potential_match_idx)
        last_match_idx ==
            find_last_match_index(v, item, potential_match_idx)
        is_full  == v.count >= v.capacity
        full     == [v |-> v, err |-> MU_STORE_ERR_FULL]
        notfound == [v |-> v, err |-> MU_STORE_ERR_NOTFOUND]
        insert_at(insert_pos) ==
            [v   |-> pvec_perform_insert(v, item, insert_pos),
             err |-> MU_STORE_ERR_NONE]
        update_at(idx) ==
            [v   |-> [v EXCEPT !.item_store[idx] = item],
             err |-> MU_STORE_ERR_NONE]
    IN
    CASE policy \in {MU_STORE_INSERT_ANY, MU_STORE_INSERT_LAST} ->
            IF is_full THEN full ELSE insert_at(bsearch_pos)
      [] policy = MU_STORE_INSERT_FIRST ->
            IF is_full THEN full
            ELSE insert_at(find_first_insertion_point(v, item, bsearch_pos))
      [] policy = MU_STORE_UPDATE_FIRST ->
            IF ~match_exists THEN notfound ELSE update_at(first_match_idx)
      [] policy = MU_STORE_UPDATE_LAST ->
            IF ~match_exists THEN notfound ELSE update_at(last_match_idx)
      [] policy = MU_STORE_UPDATE_ALL ->
            IF ~match_exists THEN notfound
            ELSE [v   |-> pvec_update_range(v, item, first_match_idx,
                                            last_match_idx),
                  err |-> MU_STORE_ERR_NONE]
      [] policy = MU_STORE_UPSERT_FIRST ->
            IF match_exists THEN update_at(first_match_idx)
            ELSE IF is_full THEN full
            ELSE insert_at(find_first_insertion_point(v, item, bsearch_pos))
      [] policy = MU_STORE_UPSERT_LAST ->
            IF match_exists THEN update_at(last_match_idx)
            ELSE IF is_full THEN full ELSE insert_at(bsearch_pos)
      [] policy = MU_STORE_INSERT_UNIQUE ->
            IF match_exists THEN [v |-> v, err |-> MU_STORE_ERR_EXISTS]
            ELSE IF is_full THEN full ELSE insert_at(bsearch_pos)
      [] policy = MU_STORE_INSERT_DUPLICATE ->
            IF ~match_exists THEN notfound
            ELSE IF is_full THEN full ELSE insert_at(bsearch_pos)
      [] OTHER -> [v |-> v, err |-> MU_STORE_ERR_PARAM]

(***************************************************************************)
(* Sorted containers: a caller that makes sorted_insert calls on one       *)
(* vector, byte or pointer, that starts empty                              *)
(***************************************************************************)
NoShellCall == [shell |-> "none", policy |-> PolicyInvalid, item |-> NULL,
                err |-> MU_STORE_ERR_NONE, pre |-> <<>>, unique_only |-> TRUE]

InitSorted ==
    /\ SpscUnused
    /\ AlgUnused
    /\ \E capacity \in 1..MaxCap :
          \/ /\ vec = mu_vec_init(TRUE, TRUE, capacity, ItemSize)
             /\ pvec = NullPvec
          \/ /\ vec = NullVec
             /\ pvec = mu_pvec_init(TRUE, TRUE, capacity)
    /\ queue = <<>>
    /\ pqueue = <<>>
    /\ call = NoShellCall

VecSortedInsert ==
    /\ vec # NullVec
    /\ call.shell = "none"
    /\ \E item \in Pointers \cup {NULL}, policy \in Policies \cup {PolicyInvalid} :
          LET r == mu_vec_sorted_insert(vec, item, policy) IN
          /\ vec' = r.v
          /\ call' = [shell |-> "vec", policy |-> policy, item |-> item,
                      err |-> r.err, pre |-> vec,
                      unique_only |-> call.unique_only
                                      /\ policy = MU_STORE_INSERT_UNIQUE]
    /\ UNCHANGED <<pvec, queue, pqueue>>
    /\ UNCHANGED <<spscVars, algVars>>

PvecSortedInsert ==
    /\ pvec # NullPvec
    /\ call.shell = "none"
    /\ \E item \in Pointers \cup {NULL}, policy \in Policies \cup {PolicyInvalid} :
          LET r == mu_pvec_sorted_insert(pvec, item, policy) IN
          /\ pvec' = r.v
          /\ call' = [shell |-> "pvec", policy |-> policy, item |-> item,
                      err |-> r.err, pre |-> pvec,
                      unique_only |-> call.unique_only
                                      /\ policy = MU_STORE_INSERT_UNIQUE]
    /\ UNCHANGED <<vec, queue, pqueue>>
    /\ UNCHANGED <<spscVars, algVars>>

\* the caller has looked at the result of the call and goes on
CallReturn ==
    /\ call.shell # "none"
    /\ call' = [NoShellCall EXCEPT !.unique_only = call.unique_only]
    /\ UNCHANGED <<vec, pvec, queue, pqueue>>
    /\ UNCHANGED <<spscVars, algVars>>

NextSorted == VecSortedInsert \/ PvecSortedInsert \/ CallReturn
SpecSorted == InitSorted /\ [][NextSorted]_vars

(***************************************************************************)
(* Properties of the sorted containers                                     *)
(***************************************************************************)
\* the live elements of the shell that a call record is about, as keys
VecKeys(v)  == [i \in 1..v.count |-> v.items[i - 1].key]
PvecKeys(v) == [i \in 1..v.count |-> ObjAt(v.item_store[i - 1]).key]

ShellKeys(shell, v) == IF shell = "vec" THEN VecKeys(v) ELSE PvecKeys(v)
ShellNow(shell)     == IF shell = "vec" THEN vec ELSE pvec

\* ascending under the comparator: no element compares greater than a later one
VecSorted(v) ==
    \A i, j \in 0..(v.count - 1) :
        i < j => compare_items_by_value(v.items[i], v.items[j]) <= 0
PvecSorted(v) ==
    \A i, j \in 0..(v.count - 1) :
        i < j => compare_pointers_by_value(v.item_store[i], v.item_store[j]) <= 0
ShellSorted(shell, v) == IF shell = "vec" THEN VecSorted(v) ELSE PvecSorted(v)

IsSortedSeq(ks) == \A i, j \in 1..Len(ks) : i < j => ks[i] <= ks[j]
HasKey(ks, k)   == \E i \in 1..Len(ks) : ks[i] = k
HasDupRun(ks)   == \E i, j \in 1..Len(ks) : i < j /\ ks[i] = ks[j]
NoEqualPair(ks) == \A i, j \in 1..Len(ks) : i < j => ks[i] # ks[j]

CallMade  == call.shell # "none"
CallKey   == ObjAt(call.item).key
CallValid == CallMade /\ call.item # NULL /\ call.policy \in Policies

\* C2: a sorted_insert call of any policy on a vector or pointer vector that
\* is sorted ascending and that returns MU_STORE_ERR_NONE leaves it sorted
\* ascending; so every state reached from the empty container by sorted
\* inserts is sorted.
C2_SortedPreserved ==
    /\ (vec # NullVec) => VecSorted(vec)
    /\ (pvec # NullPvec) => PvecSorted(pvec)
    /\ (CallMade /\ call.err = MU_STORE_ERR_NONE /\ ShellSorted(call.shell, call.pre))
          => ShellSorted(call.shell, ShellNow(call.shell))

\* C2 witness: a successful INSERT_FIRST of a key into a pointer vector that
\* held a smaller key and a run of that key, which put the new pointer
\* before the run
C2_Witness ==
    /\ call.shell = "pvec"
    /\ call.policy = MU_STORE_INSERT_FIRST
    /\ call.err = MU_STORE_ERR_NONE
    /\ PvecKeys(call.pre) = <<1, 2>>
    /\ CallKey = 2
    /\ pvec.count = 3
    /\ pvec.item_store[1] = call.item
    /\ PvecSorted(pvec)

UpdatePolicies ==
    {MU_STORE_UPDATE_FIRST, MU_STORE_UPDATE_LAST, MU_STORE_UPDATE_ALL}
PlainInsertPolicies ==
    {MU_STORE_INSERT_ANY, MU_STORE_INSERT_FIRST, MU_STORE_INSERT_LAST}

\* the call was made on a full, sorted container with a run of duplicates
CallOnFullWithRun ==
    /\ CallValid
    /\ call.pre.count = call.pre.capacity
    /\ ShellSorted(call.shell, call.pre)
    /\ HasDupRun(ShellKeys(call.shell, call.pre))

CallMatches == HasKey(ShellKeys(call.shell, call.pre), CallKey)

\* C3 as stated: on a full sorted container with a run of duplicates,
\* UPDATE_FIRST/LAST/ALL on a matching key return NONE with count unchanged,
\* and INSERT_ANY/UNIQUE/DUPLICATE/FIRST/LAST on the same or a new key
\* return FULL.
C3_Original ==
    CallOnFullWithRun =>
        /\ (call.policy \in UpdatePolicies /\ CallMatches) =>
              /\ call.err = MU_STORE_ERR_NONE
              /\ ShellNow(call.shell).count = call.pre.count
        /\ (call.policy \in PlainInsertPolicies
                             \cup {MU_STORE_INSERT_UNIQUE,
                                   MU_STORE_INSERT_DUPLICATE}) =>
              call.err = MU_STORE_ERR_FULL

\* C3 amended: on a full sorted container with a run of duplicates,
\* UPDATE_FIRST/LAST/ALL on a matching key return NONE with count unchanged;
\* INSERT_ANY/FIRST/LAST return FULL on the same or a new key; INSERT_UNIQUE
\* returns FULL on a new key and EXISTS on a matching key; INSERT_DUPLICATE
\* returns FULL on a matching key and NOTFOUND on a new key.
C3_FullVsUpdate ==
    CallOnFullWithRun =>
        /\ (call.policy \in UpdatePolicies /\ CallMatches) =>
              /\ call.err = MU_STORE_ERR_NONE
              /\ ShellNow(call.shell).count = call.pre.count
        /\ (call.policy \in PlainInsertPolicies) =>
              call.err = MU_STORE_ERR_FULL
        /\ (call.policy = MU_STORE_INSERT_UNIQUE) =>
              call.err = IF CallMatches THEN MU_STORE_ERR_EXISTS
                         ELSE MU_STORE_ERR_FULL
        /\ (call.policy = MU_STORE_INSERT_DUPLICATE) =>
              call.err = IF CallMatches THEN MU_STORE_ERR_FULL
                         ELSE MU_STORE_ERR_NOTFOUND

\* C3 witness: UPDATE_FIRST on the key of the run of a full byte vector
\* <<1, 2, 2>> returned NONE and overwrote the first item of the run
C3_Witness ==
    /\ CallOnFullWithRun
    /\ call.shell = "vec"
    /\ call.policy = MU_STORE_UPDATE_FIRST
    /\ VecKeys(call.pre) = <<1, 2, 2>>
    /\ CallKey = 2
    /\ call.err = MU_STORE_ERR_NONE
    /\ vec.items[1] = ObjAt(call.item)
    /\ vec.items[1] # call.pre.items[1]

\* C5 as stated: INSERT_UNIQUE of a key that matches no element returns NONE
\* and count grows by one; INSERT_UNIQUE of a matching key returns EXISTS
\* and changes nothing; after INSERT_UNIQUE calls only, from the empty
\* container, no two elements compare equal.
C5_Original ==
    /\ (CallValid /\ call.policy = MU_STORE_INSERT_UNIQUE) =>
          /\ ~CallMatches =>
                /\ call.err = MU_STORE_ERR_NONE
                /\ ShellNow(call.shell).count = call.pre.count + 1
          /\ CallMatches =>
                /\ call.err = MU_STORE_ERR_EXISTS
                /\ ShellNow(call.shell) = call.pre
    /\ (CallMade /\ call.unique_only) =>
          NoEqualPair(ShellKeys(call.shell, ShellNow(call.shell)))

\* C5 amended: INSERT_UNIQUE of a key that matches no element of a container
\* that is not full returns NONE and count grows by one (on a full container
\* it returns FULL and changes nothing); INSERT_UNIQUE of a matching key
\* returns EXISTS and changes nothing; after INSERT_UNIQUE calls only, from
\* the empty container, no two elements compare equal.
C5_UniqueEnforced ==
    /\ (CallValid /\ call.policy = MU_STORE_INSERT_UNIQUE) =>
          /\ (~CallMatches /\ call.pre.count < call.pre.capacity) =>
                /\ call.err = MU_STORE_ERR_NONE
                /\ ShellNow(call.shell).count = call.pre.count + 1
                /\ HasKey(ShellKeys(call.shell, ShellNow(call.shell)), CallKey)
          /\ (~CallMatches /\ call.pre.count >= call.pre.capacity) =>
                /\ call.err = MU_STORE_ERR_FULL
                /\ ShellNow(call.shell) = call.pre
          /\ CallMatches =>
                /\ call.err = MU_STORE_ERR_EXISTS
                /\ ShellNow(call.shell) = call.pre
    /\ (CallMade /\ call.unique_only) =>
          NoEqualPair(ShellKeys(call.shell, ShellNow(call.shell)))

\* C5 witness: after two successful INSERT_UNIQUE calls a third one, of a
\* key that is present, returned EXISTS
C5_Witness ==
    /\ CallValid
    /\ call.unique_only
    /\ call.policy = MU_STORE_INSERT_UNIQUE
    /\ call.err = MU_STORE_ERR_EXISTS
    /\ call.pre.count = 2
    /\ ShellNow(call.shell) = call.pre

(***************************************************************************)
(* mu_store: binary search for the lower bound                             *)
(***************************************************************************)
MaxSearchLen == 4   \* searched arrays hold 0 .. MaxSearchLen elements
NSearchItems == 6   \* elements and targets are the items at addresses 1 .. NSearchItems

\* comparators are passed by name; a NULL comparator is NoCompare
NoCompare == "NULL"
CompareItemFns == {"compare_items_by_value", "compare_items_by_id"}
ComparePtrFns  == {"compare_pointers_by_value", "compare_pointers_by_id"}

compare_items_by_id(a, b) ==
    IF a.id < b.id THEN -1 ELSE IF a.id > b.id THEN 1 ELSE 0

compare_pointers_by_id(pa, pb) ==
    IF ObjAt(pa).id < ObjAt(pb).id THEN -1
    ELSE IF ObjAt(pa).id > ObjAt(pb).id THEN 1 ELSE 0

\* the call compare_fn(a, b) through the function pointer
compare(compare_fn, a, b) ==
    CASE compare_fn = "compare_items_by_value"    -> compare_items_by_value(a, b)
      [] compare_fn = "compare_items_by_id"       -> compare_items_by_id(a, b)
      [] compare_fn = "compare_pointers_by_value" -> compare_pointers_by_value(a, b)
      [] compare_fn = "compare_pointers_by_id"    -> compare_pointers_by_id(a, b)

\* working_items / working_ptrs: a buffer of len slots whose first Len(arr)
\* slots hold the items (the pointers) at the addresses in arr
ItemBuffer(arr, len) ==
    [i \in 0..(len - 1) |-> IF i < Len(arr) THEN ObjAt(arr[i + 1]) ELSE NoItem]
PtrBuffer(arr, len) ==
    [i \in 0..(len - 1) |-> IF i < Len(arr) THEN arr[i + 1] ELSE NULL]

\* mu_store_search: declared in mu_store.h and not defined in the sources;
\* binary search for the smallest index i in [0, item_count] with
\* compare_fn(item, &base[i]) <= 0
RECURSIVE mu_store_search_loop(_, _, _, _, _)
mu_store_search_loop(base, compare_fn, item, low, high) ==
    IF low < high
    THEN LET mid == low + (high - low) \div 2 IN
         IF compare(compare_fn, item, base[mid]) <= 0
         THEN mu_store_search_loop(base, compare_fn, item, low, mid)
         ELSE mu_store_search_loop(base, compare_fn, item, mid + 1, high)
    ELSE low

mu_store_search(base, item_count, item_size, compare_fn, item) ==
    mu_store_search_loop(base, compare_fn, item, 0, item_count)

\* mu_store_psearch: the same over an array of pointers to items; the
\* comparator is called as compare_fn(item, base[i]), on two pointers to items
RECURSIVE mu_store_psearch_loop(_, _, _, _, _)
mu_store_psearch_loop(base, compare_fn, item, low, high) ==
    IF low < high
    THEN LET mid == low + (high - low) \div 2 IN
         IF compare(compare_fn, ObjAt(item), ObjAt(base[mid])) <= 0
         THEN mu_store_psearch_loop(base, compare_fn, item, low, mid)
         ELSE mu_store_psearch_loop(base, compare_fn, item, mid + 1, high)
    ELSE low

mu_store_psearch(base, item_count, compare_fn, item) ==
    mu_store_psearch_loop(base, compare_fn, item, 0, item_count)

\* a byte vector of capacity len that holds the items at the addresses in arr
RECURSIVE VecOf(_, _)
VecOf(arr, len) ==
    IF arr = <<>>
    THEN mu_vec_init(TRUE, TRUE, len, ItemSize)
    ELSE mu_vec_push(VecOf(SubSeq(arr, 1, Len(arr) - 1), len),
                     ObjAt(arr[Len(arr)])).v

NoResult == <<>>

\* arrays of at most MaxSearchLen item addresses, ascending by value
SortedArrays ==
    { a \in UNION { [1..n -> 1..NSearchItems] : n \in 0..MaxSearchLen } :
        \A i, j \in 1..Len(a) :
            i < j => compare_pointers_by_value(a[i], a[j]) <= 0 }

InitSearch ==
    /\ SpscUnused
    /\ ShellUnused
    /\ hs = <<>>
    /\ pool = <<>>
    /\ \E arr \in SortedArrays, target \in 1..NSearchItems :
          srch = [arr |-> arr, target |-> target, search |-> NoResult,
                  psearch |-> NoResult, find |-> NoResult]

StoreSearch ==
    /\ srch.search = NoResult
    /\ srch' = [srch EXCEPT !.search =
                  << mu_store_search(ItemBuffer(srch.arr, MaxSearchLen),
                                     Len(srch.arr), ItemSize,
                                     "compare_items_by_value",
                                     ObjAt(srch.target)) >>]
    /\ UNCHANGED <<spscVars, shellVars, hs, pool>>

StorePsearch ==
    /\ srch.psearch = NoResult
    /\ srch' = [srch EXCEPT !.psearch =
                  << mu_store_psearch(PtrBuffer(srch.arr, MaxSearchLen),
                                      Len(srch.arr),
                                      "compare_items_by_value",
                                      srch.target) >>]
    /\ UNCHANGED <<spscVars, shellVars, hs, pool>>

VecSortFind ==
    /\ srch.find = NoResult
    /\ srch' = [srch EXCEPT !.find =
                  << sort_find(VecOf(srch.arr, MaxSearchLen),
                               ObjAt(srch.target)) >>]
    /\ UNCHANGED <<spscVars, shellVars, hs, pool>>

NextSearch == StoreSearch \/ StorePsearch \/ VecSortFind
SpecSearch == InitSearch /\ [][NextSearch]_vars

\* the keys of the searched array and of the target
SrchKeys   == [i \in 1..Len(srch.arr) |-> ObjAt(srch.arr[i]).key]
SrchTarget == ObjAt(srch.target).key

\* i is a lower bound of the target: every element before index i compares
\* less than the target, every element at or after it greater or equal
\* (indices from 0, as in the code)
IsLowerBound(i) ==
    /\ i \in 0..Len(srch.arr)
    /\ \A j \in 0..(Len(srch.arr) - 1) :
          IF j < i
          THEN compare_items_by_value(ObjAt(srch.arr[j + 1]),
                                      ObjAt(srch.target)) < 0
          ELSE compare_items_by_value(ObjAt(srch.arr[j + 1]),
                                      ObjAt(srch.target)) >= 0

\* i is the index the claim describes, and the only such index
IsTheLowerBound(i) ==
    /\ IsLowerBound(i)
    /\ \A k \in 0..Len(srch.arr) : IsLowerBound(k) => k = i
    /\ (\A j \in 1..Len(srch.arr) : SrchKeys[j] < SrchTarget)
          => i = Len(srch.arr)
    /\ HasKey(SrchKeys, SrchTarget)
          => /\ SrchKeys[i + 1] = SrchTarget
             /\ \A j \in 1..i : SrchKeys[j] # SrchTarget

\* C6: on an array sorted ascending, mu_store_search, mu_store_psearch and
\* sort_find return the unique index i in [0, count] with every element
\* before i less than the target and every element from i on greater or
\* equal (count when the target is greater than all, the first duplicate
\* when the target matches a run); sort_find reports found (NONE) exactly
\* when some element compares equal to the target, NOTFOUND otherwise.
C6_LowerBound ==
    /\ (srch.search # NoResult) => IsTheLowerBound(srch.search[1])
    /\ (srch.psearch # NoResult) => IsTheLowerBound(srch.psearch[1])
    /\ (srch.find # NoResult) =>
          /\ IsTheLowerBound(srch.find[1].index)
          /\ srch.find[1].err =
                IF HasKey(SrchKeys, SrchTarget)
                THEN MU_STORE_ERR_NONE ELSE MU_STORE_ERR_NOTFOUND

\* C6 witness: the three searches of a target that matches the run of
\* duplicates in <<1, 2, 2, 3>> returned index 1, sort_find with NONE
C6_Witness ==
    /\ SrchKeys = <<1, 2, 2, 3>>
    /\ SrchTarget = 2
    /\ srch.search = <<1>>
    /\ srch.psearch = <<1>>
    /\ srch.find = << [err |-> MU_STORE_ERR_NONE, index |-> 1] >>

(***************************************************************************)
(* mu_store: heapsort of an array of items and of an array of pointers     *)
(***************************************************************************)
MaxSortLen == 5     \* sorted arrays hold 0 .. MaxSortLen elements
NSortItems == 5     \* their elements are the items at addresses 1 .. NSortItems

\* swap_items: the bytes of two slots change places
swap_items(base, a, b) == [base EXCEPT ![a] = base[b], ![b] = base[a]]

\* swap_pointers: the pointers in two slots change places
swap_pointers(arr, a, b) == [arr EXCEPT ![a] = arr[b], ![b] = arr[a]]

\* heapify_items: sift the item at index i down the max-heap base[0 .. n-1]
RECURSIVE heapify_items_mut(_, _, _, _, _)
heapify_items_mut(base, n, i, item_size, compare_fn) ==
    LET left  == 2 * i + 1
        right == 2 * i + 2
        l1 == IF left < n /\ compare(compare_fn, base[left], base[i]) > 0
              THEN left ELSE i
        largest == IF right < n /\ compare(compare_fn, base[right], base[i]) > 0
                   THEN right ELSE l1
    IN IF largest # i
       THEN heapify_items_mut(swap_items(base, i, largest), n, largest,
                              item_size, compare_fn)
       ELSE base
RECURSIVE heapify_items(_, _, _, _, _)
heapify_items(base, n, i, item_size, compare_fn) ==
    LET left  == 2 * i + 1
        right == 2 * i + 2
        l1 == IF left < n /\ compare(compare_fn, base[left], base[i]) > 0
              THEN left ELSE i
        largest == IF right < n /\ compare(compare_fn, base[right], base[l1]) > 0
                   THEN right ELSE l1
    IN IF largest # i
       THEN heapify_items(swap_items(base, i, largest), n, largest,
                          item_size, compare_fn)
       ELSE base

\* heapify_pointers: the same over an array of pointers
RECURSIVE heapify_pointers(_, _, _, _)
heapify_pointers(arr, n, i, compare_fn) ==
    LET left  == 2 * i + 1
        right == 2 * i + 2
        l1 == IF left < n /\ compare(compare_fn, arr[left], arr[i]) > 0
              THEN left ELSE i
        largest == IF right < n /\ compare(compare_fn, arr[right], arr[l1]) > 0
                   THEN right ELSE l1
    IN IF largest # i
       THEN heapify_pointers(swap_pointers(arr, i, largest), n, largest,
                             compare_fn)
       ELSE arr

\* the build loop of mu_store_sort: for (i = item_count / 2 - 1; i >= 0; i--)
RECURSIVE sort_build_loop(_, _, _, _, _)
sort_build_loop(base, item_count, i, item_size, compare_fn) ==
    IF i >= 0
    THEN sort_build_loop(heapify_items(base, item_count, i, item_size,
                                       compare_fn),
                         item_count, i - 1, item_size, compare_fn)
    ELSE base

\* an extract loop that only swaps the root to the end and never sifts down
sort_extract_loop_mut(base, i, item_size, compare_fn) ==
    IF i > 0 THEN swap_items(base, 0, i) ELSE base

\* the extract loop of mu_store_sort: for (i = item_count - 1; i > 0; i--)
RECURSIVE sort_extract_loop(_, _, _, _)
sort_extract_loop(base, i, item_size, compare_fn) ==
    IF i > 0
    THEN sort_extract_loop(heapify_items(swap_items(base, 0, i), i, 0,
                                         item_size, compare_fn),
                           i - 1, item_size, compare_fn)
    ELSE base

\* mu_store_sort; base is <<>> for a NULL base, else the buffer
mu_store_sort(base, item_count, item_size, compare_fn) ==
    IF base = <<>> \/ compare_fn = NoCompare \/ item_size = 0
    THEN [base |-> base, err |-> MU_STORE_ERR_PARAM]
    ELSE IF item_count <= 1
    THEN [base |-> base, err |-> MU_STORE_ERR_NONE]
    ELSE [base |-> sort_extract_loop(
                       sort_build_loop(base, item_count,
                                       item_count \div 2 - 1,
                                       item_size, compare_fn),
                       item_count - 1, item_size, compare_fn),
          err  |-> MU_STORE_ERR_NONE]

RECURSIVE psort_build_loop(_, _, _, _)
psort_build_loop(base, item_count, i, compare_fn) ==
    IF i >= 0
    THEN psort_build_loop(heapify_pointers(base, item_count, i, compare_fn),
                          item_count, i - 1, compare_fn)
    ELSE base

RECURSIVE psort_extract_loop(_, _, _)
psort_extract_loop(base, i, compare_fn) ==
    IF i > 0
    THEN psort_extract_loop(heapify_pointers(swap_pointers(base, 0, i), i, 0,
                                             compare_fn),
                            i - 1, compare_fn)
    ELSE base

\* mu_store_psort; base is <<>> for a NULL base, else the buffer
mu_store_psort(base, item_count, compare_fn) ==
    IF base = <<>> \/ compare_fn = NoCompare
    THEN [base |-> base, err |-> MU_STORE_ERR_PARAM]
    ELSE IF item_count <= 1
    THEN [base |-> base, err |-> MU_STORE_ERR_NONE]
    ELSE [base |-> psort_extract_loop(
                       psort_build_loop(base, item_count,
                                        item_count \div 2 - 1, compare_fn),
                       item_count - 1, compare_fn),
          err  |-> MU_STORE_ERR_NONE]

\* arrays of at most MaxSortLen addresses, in any order
InputArrays == UNION { [1..n -> 1..NSortItems] : n \in 0..MaxSortLen }

InitSort ==
    /\ SpscUnused
    /\ ShellUnused
    /\ srch = <<>>
    /\ pool = <<>>
    /\ \E arr \in InputArrays :
          hs = [input |-> arr, called |-> "none", compare_fn |-> NoCompare,
                item_size |-> 0, base |-> <<>>, err |-> MU_STORE_ERR_NONE]

\* a call of mu_store_sort on working_items (or on a NULL base)
StoreSort ==
    /\ hs.called = "none"
    /\ \E compare_fn \in CompareItemFns \cup {NoCompare},
          item_size \in {0, ItemSize}, base_null \in BOOLEAN :
          LET base == IF base_null THEN <<>>
                      ELSE ItemBuffer(hs.input, MaxSortLen)
              r    == mu_store_sort(base, Len(hs.input), item_size, compare_fn)
          IN hs' = [hs EXCEPT !.called = "mu_store_sort",
                              !.compare_fn = compare_fn,
                              !.item_size = item_size,
                              !.base = r.base, !.err = r.err]
    /\ UNCHANGED <<spscVars, shellVars, srch, pool>>

\* a call of mu_store_psort on working_ptrs (or on a NULL base)
StorePsort ==
    /\ hs.called = "none"
    /\ \E compare_fn \in ComparePtrFns \cup {NoCompare}, base_null \in BOOLEAN :
          LET base == IF base_null THEN <<>>
                      ELSE PtrBuffer(hs.input, MaxSortLen)
              r    == mu_store_psort(base, Len(hs.input), compare_fn)
          IN hs' = [hs EXCEPT !.called = "mu_store_psort",
                              !.compare_fn = compare_fn,
                              !.base = r.base, !.err = r.err]
    /\ UNCHANGED <<spscVars, shellVars, srch, pool>>

NextSort == StoreSort \/ StorePsort
SpecSort == InitSort /\ [][NextSort]_vars

\* the array as the call received it
HsInputBuffer ==
    IF hs.called = "mu_store_sort"
    THEN ItemBuffer(hs.input, MaxSortLen)
    ELSE PtrBuffer(hs.input, MaxSortLen)

\* the call returned NONE (so base and comparator were not NULL)
HsSorted == hs.called # "none" /\ hs.err = MU_STORE_ERR_NONE

\* how many of the first Len(hs.input) slots of buf hold x
Occurrences(buf, x) ==
    Cardinality({ i \in 0..(Len(hs.input) - 1) : buf[i] = x })

\* C7: after mu_store_sort or mu_store_psort returns MU_STORE_ERR_NONE the
\* array is non-decreasing under the comparator it was given and is a
\* permutation of the input: every element occurs as many times as before.
C7_HeapsortCorrect ==
    HsSorted =>
        /\ \A i, j \in 0..(Len(hs.input) - 1) :
              i < j => compare(hs.compare_fn, hs.base[i], hs.base[j]) <= 0
        /\ \A i \in 0..(Len(hs.input) - 1) :
              Occurrences(hs.base, hs.base[i])
                 = Occurrences(HsInputBuffer, hs.base[i])
        /\ \A i \in 0..(Len(hs.input) - 1) :
              Occurrences(hs.base, HsInputBuffer[i])
                 = Occurrences(HsInputBuffer, HsInputBuffer[i])
        /\ \A i \in Len(hs.input)..(MaxSortLen - 1) :
              hs.base[i] = HsInputBuffer[i]

\* C7 witness: mu_store_sort by value of four items with keys <<2, 1, 3, 2>>
\* returned NONE and left the keys as <<1, 2, 2, 3>>
C7_Witness ==
    /\ hs.called = "mu_store_sort"
    /\ hs.compare_fn = "compare_items_by_value"
    /\ hs.err = MU_STORE_ERR_NONE
    /\ hs.input = <<3, 1, 5, 4>>
    /\ [i \in 1..4 |-> hs.base[i - 1].key] = <<1, 2, 2, 3>>

\* the array the call received was ascending under the comparator it passed
HsInputSorted ==
    \A i, j \in 0..(Len(hs.input) - 1) :
        i < j => compare(hs.compare_fn, HsInputBuffer[i], HsInputBuffer[j]) <= 0

\* no two elements of the array compare equal
HsInputDistinct ==
    \A i, j \in 0..(Len(hs.input) - 1) :
        i # j => compare(hs.compare_fn, HsInputBuffer[i], HsInputBuffer[j]) # 0

\* the call had a base, a comparator and (byte variant) an element size
HsArgsValid ==
    /\ hs.called # "none"
    /\ hs.base # <<>>
    /\ hs.compare_fn # NoCompare
    /\ hs.called = "mu_store_sort" => hs.item_size # 0

\* C18 as stated: a sort of an array that is already ascending leaves the
\* array exactly as it was, and a sort of 0 or 1 elements returns NONE
\* without touching the array.
C18_Original ==
    HsArgsValid =>
        /\ HsInputSorted => (hs.err = MU_STORE_ERR_NONE /\ hs.base = HsInputBuffer)
        /\ Len(hs.input) <= 1 =>
              (hs.err = MU_STORE_ERR_NONE /\ hs.base = HsInputBuffer)

\* C18: a sort of an array that is already ascending returns NONE and leaves
\* at every position an element that compares equal to the one that was
\* there (the same element where no two elements compare equal; elements
\* that compare equal may change places); a sort of 0 or 1 elements returns
\* NONE without touching the array.
C18_SortedInputKept ==
    HsArgsValid =>
        /\ HsInputSorted =>
              /\ hs.err = MU_STORE_ERR_NONE
              /\ \A i \in 0..(Len(hs.input) - 1) :
                    compare(hs.compare_fn, hs.base[i], HsInputBuffer[i]) = 0
              /\ HsInputDistinct => hs.base = HsInputBuffer
        /\ Len(hs.input) <= 1 =>
              (hs.err = MU_STORE_ERR_NONE /\ hs.base = HsInputBuffer)

\* C18 witness: mu_store_sort by value of an ascending array of three or
\* more items, two of them with one key, returned with these two exchanged
C18_Witness ==
    /\ hs.called = "mu_store_sort"
    /\ hs.compare_fn = "compare_items_by_value"
    /\ HsArgsValid
    /\ HsInputSorted
    /\ Len(hs.input) >= 3
    /\ hs.err = MU_STORE_ERR_NONE
    /\ hs.base # HsInputBuffer

(***************************************************************************)
(* Sorted containers: where each policy puts the element                   *)
(***************************************************************************)
\* the live elements of a shell as a sequence: the items of a byte vector,
\* the pointers of a pointer vector
ShellElems(shell, v) ==
    IF shell = "vec"
    THEN [i \in 1..v.count |-> v.items[i - 1]]
    ELSE [i \in 1..v.count |-> v.item_store[i - 1]]

\* the element the call passed in, as the shell stores it
CallElem == IF call.shell = "vec" THEN ObjAt(call.item) ELSE call.item

PreElems == ShellElems(call.shell, call.pre)
NowElems == ShellElems(call.shell, ShellNow(call.shell))
PreKeys  == ShellKeys(call.shell, call.pre)

\* number of elements before the first one that is not less than key k, and
\* before the first one that is greater than k (indices from 0)
LowerBoundOf(ks, k) == Cardinality({ i \in 1..Len(ks) : ks[i] < k })
UpperBoundOf(ks, k) == Cardinality({ i \in 1..Len(ks) : ks[i] <= k })

\* s with e inserted so that it ends up at index idx (from 0)
InsertedAt(s, e, idx) ==
    SubSeq(s, 1, idx) \o <<e>> \o SubSeq(s, idx + 1, Len(s))

CallNotFull == call.pre.count < call.pre.capacity

\* C12: INSERT_ANY on a byte vector or pointer vector with free capacity
\* returns NONE and the container afterwards is the container before with
\* the new element inserted at the lower-bound index (before the first equal
\* element when there is one): count grows by one and the prior elements
\* keep their order.
C12_InsertAnyLowerBound ==
    (CallValid /\ call.policy = MU_STORE_INSERT_ANY /\ CallNotFull) =>
        /\ call.err = MU_STORE_ERR_NONE
        /\ NowElems = InsertedAt(PreElems, CallElem,
                                 LowerBoundOf(PreKeys, CallKey))

\* the byte-vector half of C12
C12_VecInsertAnyLowerBound ==
    (call.shell = "vec") => C12_InsertAnyLowerBound

KeysOf(shell, s) ==
    [i \in 1..Len(s) |-> IF shell = "vec" THEN s[i].key ELSE ObjAt(s[i]).key]

\* C13: on a container with free capacity INSERT_FIRST returns NONE and puts
\* the new element immediately before the whole run of equal elements,
\* INSERT_LAST returns NONE and puts it immediately after the whole run;
\* with no equal element both put it at the only index that keeps the
\* container sorted; count grows by one.  On a full container, such as the
\* one a successful insert has just filled, both return FULL and change
\* nothing.
C13_InsertFirstLast ==
    (CallValid /\ call.policy \in {MU_STORE_INSERT_FIRST, MU_STORE_INSERT_LAST}) =>
        IF CallNotFull
        THEN LET idx == IF call.policy = MU_STORE_INSERT_FIRST
                        THEN LowerBoundOf(PreKeys, CallKey)
                        ELSE UpperBoundOf(PreKeys, CallKey)
             IN /\ call.err = MU_STORE_ERR_NONE
                /\ NowElems = InsertedAt(PreElems, CallElem, idx)
                /\ ShellNow(call.shell).count = call.pre.count + 1
                /\ ~CallMatches =>
                      \A k \in 0..Len(PreElems) :
                          IsSortedSeq(KeysOf(call.shell,
                                             InsertedAt(PreElems, CallElem, k)))
                             => k = idx
        ELSE /\ call.err = MU_STORE_ERR_FULL
             /\ ShellNow(call.shell) = call.pre

\* C13 witness: INSERT_LAST of key 1 into the pointer vector <<1, 1>> of
\* capacity 3, a run that starts at index 0 and ends at the end, put the new
\* pointer at index 2 and filled the vector
C13_Witness ==
    /\ CallValid
    /\ call.shell = "pvec"
    /\ call.policy = MU_STORE_INSERT_LAST
    /\ PreKeys = <<1, 1>>
    /\ CallKey = 1
    /\ call.err = MU_STORE_ERR_NONE
    /\ pvec.count = pvec.capacity
    /\ pvec.item_store[2] = call.item
    /\ pvec.item_store[0] # call.item
    /\ pvec.item_store[1] # call.item

\* C14: INSERT_DUPLICATE returns NOTFOUND and changes nothing when no
\* element compares equal to the new one; when one does, and there is free
\* capacity, it returns NONE and the new element sits immediately after the
\* last equal element, in the byte vector and in the pointer vector.
C14_InsertDuplicateAfterLast ==
    (CallValid /\ call.policy = MU_STORE_INSERT_DUPLICATE) =>
        /\ ~CallMatches =>
              /\ call.err = MU_STORE_ERR_NOTFOUND
              /\ ShellNow(call.shell) = call.pre
        /\ (CallMatches /\ CallNotFull) =>
              /\ call.err = MU_STORE_ERR_NONE
              /\ NowElems = InsertedAt(PreElems, CallElem,
                                       UpperBoundOf(PreKeys, CallKey))

\* the pointer-vector half of C14
C14_PvecInsertDuplicateAfterLast ==
    (call.shell = "pvec") => C14_InsertDuplicateAfterLast

\* s with the element at every index (from 0) in the set at replaced by e
ReplacedAt(s, e, at) ==
    [i \in 1..Len(s) |-> IF (i - 1) \in at THEN e ELSE s[i]]

\* the run of elements equal to the key of the call: first_match .. last_match
FirstMatch == LowerBoundOf(PreKeys, CallKey)
LastMatch  == UpperBoundOf(PreKeys, CallKey) - 1

\* the indices an update policy is to overwrite
UpdateTargets(policy) ==
    CASE policy = MU_STORE_UPDATE_FIRST -> {FirstMatch}
      [] policy = MU_STORE_UPDATE_LAST  -> {LastMatch}
      [] policy = MU_STORE_UPDATE_ALL   -> FirstMatch..LastMatch

\* C15: with a matching run, UPDATE_FIRST overwrites exactly the element at
\* first_match, UPDATE_LAST exactly the element at last_match, UPDATE_ALL
\* every element of the run and no other, returning NONE; count and every
\* other element are unchanged; with no match each returns NOTFOUND and
\* changes nothing.
C15_UpdateTargets ==
    (CallValid /\ call.policy \in UpdatePolicies) =>
        IF CallMatches
        THEN /\ call.err = MU_STORE_ERR_NONE
             /\ ShellNow(call.shell).count = call.pre.count
             /\ ShellNow(call.shell).capacity = call.pre.capacity
             /\ NowElems = ReplacedAt(PreElems, CallElem,
                                      UpdateTargets(call.policy))
        ELSE /\ call.err = MU_STORE_ERR_NOTFOUND
             /\ ShellNow(call.shell) = call.pre

\* C15 witness: UPDATE_FIRST of key 2 on the pointer vector <<1, 2, 2>>
\* replaced the pointer at index 1 with the new one and left the pointer at
\* index 2, a different one, in place
C15_Witness ==
    /\ CallValid
    /\ call.shell = "pvec"
    /\ call.policy = MU_STORE_UPDATE_FIRST
    /\ PreKeys = <<1, 2, 2>>
    /\ CallKey = 2
    /\ call.err = MU_STORE_ERR_NONE
    /\ call.pre.item_store[1] # call.item
    /\ pvec.item_store[1] = call.item
    /\ pvec.item_store[2] = call.pre.item_store[2]
    /\ pvec.item_store[2] # call.item

UpsertPolicies == {MU_STORE_UPSERT_FIRST, MU_STORE_UPSERT_LAST}

\* C16: with a match UPSERT_FIRST overwrites the element at first_match and
\* UPSERT_LAST the element at last_match, returning NONE with count
\* unchanged, on a full container as well; with no match both insert the
\* new element at the lower-bound index and count grows by one, or, on a
\* full container, return FULL and change nothing.
C16_Upsert ==
    (CallValid /\ call.policy \in UpsertPolicies) =>
        IF CallMatches
        THEN /\ call.err = MU_STORE_ERR_NONE
             /\ ShellNow(call.shell).count = call.pre.count
             /\ NowElems = ReplacedAt(PreElems, CallElem,
                              IF call.policy = MU_STORE_UPSERT_FIRST
                              THEN {FirstMatch} ELSE {LastMatch})
        ELSE IF CallNotFull
        THEN /\ call.err = MU_STORE_ERR_NONE
             /\ ShellNow(call.shell).count = call.pre.count + 1
             /\ NowElems = InsertedAt(PreElems, CallElem,
                                      LowerBoundOf(PreKeys, CallKey))
        ELSE /\ call.err = MU_STORE_ERR_FULL
             /\ ShellNow(call.shell) = call.pre

\* C16 witness: UPSERT_LAST of key 2 on the full byte vector <<1, 2, 2>>
\* overwrote the item at index 2 and left the item at index 1, a different
\* one, in place
C16_Witness ==
    /\ CallValid
    /\ call.shell = "vec"
    /\ call.policy = MU_STORE_UPSERT_LAST
    /\ call.pre.count = call.pre.capacity
    /\ PreKeys = <<1, 2, 2>>
    /\ CallKey = 2
    /\ call.err = MU_STORE_ERR_NONE
    /\ call.pre.items[2] # CallElem
    /\ vec.items[2] = CallElem
    /\ vec.items[1] = call.pre.items[1]
    /\ vec.items[1] # CallElem

\* the pointer to an item of the tests
PtrOf(item) == CHOOSE p \in Pointers : ObjAt(p) = item

\* the pointer vector that holds pointers to the elements of byte vector v
AsPvec(v) ==
    [item_store |-> [i \in 0..(v.capacity - 1) |->
                        IF i < v.count THEN PtrOf(v.items[i]) ELSE NULL],
     capacity   |-> v.capacity,
     count      |-> v.count]

\* what mu_pvec_sorted_insert does with the arguments of the last call of
\* mu_vec_sorted_insert on a pointer vector with the same elements
PvecTwin == mu_pvec_sorted_insert(AsPvec(call.pre), call.item, call.policy)

\* C32: for every policy and every sorted byte vector, mu_pvec_sorted_insert
\* on a pointer vector with the same elements returns the same result code
\* as mu_vec_sorted_insert and, on success, leaves the same elements at the
\* same indices.
C32_SamePolicyTable ==
    call.shell = "vec" =>
        /\ PvecTwin.err = call.err
        /\ call.err = MU_STORE_ERR_NONE =>
              /\ PvecTwin.v.count = vec.count
              /\ \A i \in 0..(vec.count - 1) :
                    ObjAt(PvecTwin.v.item_store[i]) = vec.items[i]

\* the result codes alone
C32_SameResultCode ==
    call.shell = "vec" => PvecTwin.err = call.err

\* the two shells agree under every policy but INSERT_ANY and
\* INSERT_DUPLICATE
C32_SameOutsideAnyDuplicate ==
    call.policy \notin {MU_STORE_INSERT_ANY, MU_STORE_INSERT_DUPLICATE}
        => C32_SamePolicyTable

(***************************************************************************)
(* The plain operations of the four containers: mu_vec and mu_pvec (push,  *)
(* pop, insert, delete, replace, swap), mu_queue and mu_pqueue (put, get)  *)
(***************************************************************************)
MaxOpCap == 3       \* containers of the operations caller hold 1 .. MaxOpCap
NOpItems == 3       \* the caller's items are the ones at addresses 1 .. NOpItems

OpItems == { p \in Pointers : p <= NOpItems }

ParamErr(v) == [v |-> v, err |-> MU_STORE_ERR_PARAM]

\* the calls as the caller makes them: item_in is the address of the item,
\* NULL when absent; lines 135, 164 and 200 of mu_vec.c reject it
call_mu_vec_replace(v, index, item_in) ==
    IF v = NullVec \/ item_in = NULL THEN ParamErr(v)
    ELSE mu_vec_replace(v, index, ObjAt(item_in))

call_mu_vec_push(v, item_in) ==
    IF v = NullVec \/ item_in = NULL THEN ParamErr(v)
    ELSE mu_vec_push(v, ObjAt(item_in))

call_mu_vec_insert(v, index, item_in) ==
    IF v = NullVec \/ item_in = NULL THEN ParamErr(v)
    ELSE mu_vec_insert(v, index, ObjAt(item_in))

\* mu_vec_swap: the slot and the caller's item exchange their bytes
mu_vec_swap(v, index, item_io) ==
    IF v = NullVec \/ item_io = NULL THEN ParamErr(v)
    ELSE IF v.count = 0 THEN [v |-> v, err |-> MU_STORE_ERR_EMPTY]
    ELSE IF index >= v.count THEN [v |-> v, err |-> MU_STORE_ERR_INDEX]
    ELSE [v   |-> [v EXCEPT !.items[index] = ObjAt(item_io)],
          err |-> MU_STORE_ERR_NONE]

\* mu_vec_pop: count--; the bytes of the slot stay (item_out may be NULL)
\* item is what is copied to *item_out when it is present
mu_vec_pop(v) ==
    IF v = NullVec THEN ParamErr(v)
    ELSE IF v.count = 0 THEN [v |-> v, err |-> MU_STORE_ERR_EMPTY]
    ELSE [v    |-> [v EXCEPT !.count = v.count - 1],
          err  |-> MU_STORE_ERR_NONE,
          item |-> v.items[v.count - 1]]

\* mu_vec_ref: copies the item at index out (has_out: item_out is present)
mu_vec_ref(v, index, has_out) ==
    IF v = NullVec \/ ~has_out THEN ParamErr(v)
    ELSE IF index >= v.count THEN [v |-> v, err |-> MU_STORE_ERR_INDEX]
    ELSE [v |-> v, err |-> MU_STORE_ERR_NONE, item |-> v.items[index]]

\* mu_vec_peek: mu_vec_ref of the last item; an absent vector has count 0
mu_vec_peek(v, has_out) ==
    LET count == IF v = NullVec THEN 0 ELSE v.count
    IN  IF count > 0
        THEN mu_vec_ref(v, count - 1, has_out)
        ELSE [v |-> v, err |-> MU_STORE_ERR_EMPTY]

\* mu_vec_delete with the memmove left out: the last slot is dropped
mu_vec_delete_mut(v, index) ==
    IF v = NullVec THEN ParamErr(v)
    ELSE IF v.count = 0 THEN [v |-> v, err |-> MU_STORE_ERR_EMPTY]
    ELSE IF index >= v.count THEN [v |-> v, err |-> MU_STORE_ERR_INDEX]
    ELSE [v    |-> [v EXCEPT !.count = v.count - 1],
          err  |-> MU_STORE_ERR_NONE,
          item |-> v.items[index]]

\* mu_vec_delete: memmove of slots index+1..count-1 one slot down, count--
\* item is what is copied to *item_out when it is present
mu_vec_delete(v, index) ==
    IF v = NullVec THEN ParamErr(v)
    ELSE IF v.count = 0 THEN [v |-> v, err |-> MU_STORE_ERR_EMPTY]
    ELSE IF index >= v.count THEN [v |-> v, err |-> MU_STORE_ERR_INDEX]
    ELSE [v    |-> [v EXCEPT
                     !.items = [i \in 0..(v.capacity - 1) |->
                                  IF i >= index /\ i < v.count - 1
                                  THEN v.items[i + 1]
                                  ELSE v.items[i]],
                     !.count = v.count - 1],
          err  |-> MU_STORE_ERR_NONE,
          item |-> v.items[index]]

\* mu_pvec: the item is the pointer itself and may be NULL; only the
\* handle is checked (has_item: the out-parameter of pop is present)
mu_pvec_insert(v, item, index) ==
    IF v = NullPvec THEN ParamErr(v)
    ELSE IF v.count >= v.capacity THEN [v |-> v, err |-> MU_STORE_ERR_FULL]
    ELSE IF index > v.count THEN [v |-> v, err |-> MU_STORE_ERR_INDEX]
    ELSE [v |-> pvec_perform_insert(v, item, index), err |-> MU_STORE_ERR_NONE]

mu_pvec_delete(v, index) ==
    IF v = NullPvec THEN ParamErr(v)
    ELSE IF v.count = 0 THEN [v |-> v, err |-> MU_STORE_ERR_EMPTY]
    ELSE IF index >= v.count THEN [v |-> v, err |-> MU_STORE_ERR_INDEX]
    ELSE [v   |-> [v EXCEPT
                     !.item_store = [i \in 0..(v.capacity - 1) |->
                                       IF i >= index /\ i < v.count - 1
                                       THEN v.item_store[i + 1]
                                       ELSE v.item_store[i]],
                     !.count = v.count - 1],
          err  |-> MU_STORE_ERR_NONE,
          item |-> v.item_store[index]]

mu_pvec_replace(v, item, index) ==
    IF v = NullPvec THEN ParamErr(v)
    ELSE IF index >= v.count THEN [v |-> v, err |-> MU_STORE_ERR_INDEX]
    ELSE [v   |-> [v EXCEPT !.item_store[index] = item],
          err |-> MU_STORE_ERR_NONE]

\* a push that does not look at the capacity
mu_pvec_push_mut(v, item) ==
    IF v = NullPvec THEN ParamErr(v)
    ELSE [v   |-> [v EXCEPT !.item_store =
                              [i \in 0..v.count |->
                                 IF i = v.count THEN item ELSE v.item_store[i]],
                            !.count = v.count + 1],
          err |-> MU_STORE_ERR_NONE]

mu_pvec_push(v, item) ==
    IF v = NullPvec THEN ParamErr(v)
    ELSE IF v.count >= v.capacity THEN [v |-> v, err |-> MU_STORE_ERR_FULL]
    ELSE [v   |-> [v EXCEPT !.item_store[v.count] = item,
                            !.count = v.count + 1],
          err |-> MU_STORE_ERR_NONE]

mu_pvec_pop(v, has_item) ==
    IF v = NullPvec \/ ~has_item THEN ParamErr(v)
    ELSE IF v.count = 0 THEN [v |-> v, err |-> MU_STORE_ERR_EMPTY]
    ELSE [v |-> [v EXCEPT !.count = v.count - 1], err |-> MU_STORE_ERR_NONE]

\* mu_queue: a ring of items with head, tail and count
NullQueue == <<>>   \* the absent handle

mu_queue_init(has_q, has_store, n_items, item_size) ==
    IF ~has_q \/ ~has_store \/ n_items = 0 \/ item_size = 0
    THEN NullQueue
    ELSE [items     |-> [i \in 0..(n_items - 1) |-> NoItem],
          capacity  |-> n_items,
          item_size |-> item_size,
          count     |-> 0,
          head      |-> 0,
          tail      |-> 0]

\* a mu_queue_is_full that reports an absent queue as not full
mu_queue_is_full_mut(qq) == IF qq = NullQueue THEN FALSE ELSE qq.count >= qq.capacity

mu_queue_is_empty(qq) == qq = NullQueue \/ qq.count = 0
mu_queue_is_full(qq)  == qq = NullQueue \/ qq.count >= qq.capacity

\* a put that copies the item into the tail slot before it looks at count
mu_queue_put_mut(qq, item_in) ==
    IF qq = NullQueue \/ item_in = NULL THEN ParamErr(qq)
    ELSE IF mu_queue_is_full(qq)
         THEN [v   |-> [qq EXCEPT !.items[qq.tail] = ObjAt(item_in)],
               err |-> MU_STORE_ERR_FULL]
         ELSE [v   |-> [qq EXCEPT !.items[qq.tail] = ObjAt(item_in),
                                  !.tail = (qq.tail + 1) % qq.capacity,
                                  !.count = qq.count + 1],
               err |-> MU_STORE_ERR_NONE]

mu_queue_put(qq, item_in) ==
    IF qq = NullQueue \/ item_in = NULL THEN ParamErr(qq)
    ELSE IF mu_queue_is_full(qq) THEN [v |-> qq, err |-> MU_STORE_ERR_FULL]
    ELSE [v   |-> [qq EXCEPT !.items[qq.tail] = ObjAt(item_in),
                             !.tail = (qq.tail + 1) % qq.capacity,
                             !.count = qq.count + 1],
          err |-> MU_STORE_ERR_NONE]

\* a get that copies the head item out and leaves the head where it is
mu_queue_get_mut(qq) ==
    IF qq = NullQueue THEN ParamErr(qq)
    ELSE IF mu_queue_is_empty(qq) THEN [v |-> qq, err |-> MU_STORE_ERR_EMPTY]
    ELSE [v    |-> [qq EXCEPT !.count = qq.count - 1],
          err  |-> MU_STORE_ERR_NONE,
          item |-> qq.items[qq.head]]

\* item_out may be NULL: the item is then dropped; item is what is copied
\* to *item_out when it is present
mu_queue_get(qq) ==
    IF qq = NullQueue THEN ParamErr(qq)
    ELSE IF mu_queue_is_empty(qq) THEN [v |-> qq, err |-> MU_STORE_ERR_EMPTY]
    ELSE [v    |-> [qq EXCEPT !.head = (qq.head + 1) % qq.capacity,
                              !.count = qq.count - 1],
          err  |-> MU_STORE_ERR_NONE,
          item |-> qq.items[qq.head]]

\* mu_pqueue: the same ring holding pointers; a NULL pointer is a value
NullPqueue == <<>>  \* the absent handle

mu_pqueue_init(has_q, has_store, n_items) ==
    IF ~has_q \/ ~has_store \/ n_items = 0
    THEN NullPqueue
    ELSE [items    |-> [i \in 0..(n_items - 1) |-> NULL],
          capacity |-> n_items,
          count    |-> 0,
          head     |-> 0,
          tail     |-> 0]

mu_pqueue_is_empty(qq) == qq = NullPqueue \/ qq.count = 0
mu_pqueue_is_full(qq)  == qq = NullPqueue \/ qq.count >= qq.capacity

\* a put that advances the tail without wrapping it
mu_pqueue_put_mut(qq, item_in) ==
    IF qq = NullPqueue THEN ParamErr(qq)
    ELSE IF mu_pqueue_is_full(qq) THEN [v |-> qq, err |-> MU_STORE_ERR_FULL]
    ELSE [v   |-> [qq EXCEPT !.items[qq.tail] = item_in,
                             !.tail = qq.tail + 1,
                             !.count = qq.count + 1],
          err |-> MU_STORE_ERR_NONE]

mu_pqueue_put(qq, item_in) ==
    IF qq = NullPqueue THEN ParamErr(qq)
    ELSE IF mu_pqueue_is_full(qq) THEN [v |-> qq, err |-> MU_STORE_ERR_FULL]
    ELSE [v   |-> [qq EXCEPT !.items[qq.tail] = item_in,
                             !.tail = (qq.tail + 1) % qq.capacity,
                             !.count = qq.count + 1],
          err |-> MU_STORE_ERR_NONE]

\* has_out: the out-parameter is present
mu_pqueue_get(qq, has_out) ==
    IF qq = NullPqueue \/ ~has_out THEN ParamErr(qq)
    ELSE IF mu_pqueue_is_empty(qq) THEN [v |-> qq, err |-> MU_STORE_ERR_EMPTY]
    ELSE [v    |-> [qq EXCEPT !.head = (qq.head + 1) % qq.capacity,
                              !.count = qq.count - 1],
          err  |-> MU_STORE_ERR_NONE,
          item |-> qq.items[qq.head]]

\* the accessors; each takes the handle, which may be absent
mu_vec_capacity(v) == IF v = NullVec THEN 0 ELSE v.capacity
mu_vec_count(v)    == IF v = NullVec THEN 0 ELSE v.count
mu_vec_is_empty(v) == IF v = NullVec THEN TRUE ELSE v.count = 0

mu_pvec_capacity(v) == IF v = NullPvec THEN 0 ELSE v.capacity
mu_pvec_count(v)    == IF v = NullPvec THEN 0 ELSE v.count
mu_pvec_is_empty(v) == IF v = NullPvec THEN TRUE ELSE v.count = 0
mu_pvec_is_full(v)  == IF v = NullPvec THEN FALSE ELSE v.count >= v.capacity

mu_queue_capacity(qq) == IF qq = NullQueue THEN 0 ELSE qq.capacity
mu_queue_count(qq)    == IF qq = NullQueue THEN 0 ELSE qq.count

mu_pqueue_capacity(qq) == IF qq = NullPqueue THEN 0 ELSE qq.capacity
mu_pqueue_count(qq)    == IF qq = NullPqueue THEN 0 ELSE qq.count

\* clear: count = 0 (vectors); count = head = tail = 0 (queues)
mu_vec_clear(v) ==
    IF v = NullVec THEN ParamErr(v)
    ELSE [v |-> [v EXCEPT !.count = 0], err |-> MU_STORE_ERR_NONE]

mu_pvec_clear(v) ==
    IF v = NullPvec THEN ParamErr(v)
    ELSE [v |-> [v EXCEPT !.count = 0], err |-> MU_STORE_ERR_NONE]

mu_queue_clear(qq) ==
    IF qq = NullQueue THEN ParamErr(qq)
    ELSE [v   |-> [qq EXCEPT !.count = 0, !.head = 0, !.tail = 0],
          err |-> MU_STORE_ERR_NONE]

mu_pqueue_clear(qq) ==
    IF qq = NullPqueue THEN ParamErr(qq)
    ELSE [v   |-> [qq EXCEPT !.count = 0, !.head = 0, !.tail = 0],
          err |-> MU_STORE_ERR_NONE]

\* peek copies the head item out (has_out: item_out is present) and
\* leaves head, tail and count alone
mu_queue_peek_mut(qq, has_out) ==
    IF qq = NullQueue \/ ~has_out THEN ParamErr(qq)
    ELSE IF mu_queue_is_empty(qq) THEN [v |-> qq, err |-> MU_STORE_ERR_EMPTY]
    ELSE [v    |-> qq,
          err  |-> MU_STORE_ERR_NONE,
          item |-> qq.items[(qq.tail + qq.capacity - 1) % qq.capacity]]

mu_queue_peek(qq, has_out) ==
    IF qq = NullQueue \/ ~has_out THEN ParamErr(qq)
    ELSE IF mu_queue_is_empty(qq) THEN [v |-> qq, err |-> MU_STORE_ERR_EMPTY]
    ELSE [v |-> qq, err |-> MU_STORE_ERR_NONE, item |-> qq.items[qq.head]]

mu_pqueue_peek(qq, has_out) ==
    IF qq = NullPqueue \/ ~has_out THEN ParamErr(qq)
    ELSE IF mu_pqueue_is_empty(qq) THEN [v |-> qq, err |-> MU_STORE_ERR_EMPTY]
    ELSE [v |-> qq, err |-> MU_STORE_ERR_NONE, item |-> qq.items[qq.head]]

(***************************************************************************)
(* A caller that makes whole calls on one container, of any of the four    *)
(* kinds, that starts empty; a call may pass a NULL handle or a NULL item  *)
(***************************************************************************)
NoOpCall == [shell |-> "none", op |-> "none", err |-> MU_STORE_ERR_NONE,
             pre |-> <<>>, item |-> <<>>, index |-> <<>>]

\* item: what the call copied out, where it copies an item out
\* index: what the call wrote to *index_out, where it writes one
OpCall(shell, op, pre, r) ==
    [shell |-> shell, op |-> op, err |-> r.err, pre |-> pre,
     item |-> IF "item" \in DOMAIN r THEN <<r.item>> ELSE <<>>,
     index |-> IF "index" \in DOMAIN r THEN <<r.index>> ELSE <<>>]

OpIndexes == 0..MaxOpCap
OpItemArgs == OpItems \cup {NULL}

InitOps ==
    /\ SpscUnused
    /\ AlgUnused
    /\ \E capacity \in 1..MaxOpCap :
          \/ /\ vec = mu_vec_init(TRUE, TRUE, capacity, ItemSize)
             /\ pvec = NullPvec /\ queue = NullQueue /\ pqueue = NullPqueue
          \/ /\ pvec = mu_pvec_init(TRUE, TRUE, capacity)
             /\ vec = NullVec /\ queue = NullQueue /\ pqueue = NullPqueue
          \/ /\ queue = mu_queue_init(TRUE, TRUE, capacity, ItemSize)
             /\ vec = NullVec /\ pvec = NullPvec /\ pqueue = NullPqueue
          \/ /\ pqueue = mu_pqueue_init(TRUE, TRUE, capacity)
             /\ vec = NullVec /\ pvec = NullPvec /\ queue = NullQueue
    /\ call = NoOpCall

VecReplace ==
    /\ vec # NullVec
    /\ call.shell = "none"
    /\ \E null_handle \in BOOLEAN, index \in OpIndexes, item_in \in OpItemArgs :
          LET h == IF null_handle THEN NullVec ELSE vec
              r == call_mu_vec_replace(h, index, item_in)
          IN
          /\ vec' = IF null_handle THEN vec ELSE r.v
          /\ call' = OpCall("vec", "replace", vec, r)
    /\ UNCHANGED <<pvec, queue, pqueue>>
    /\ UNCHANGED <<spscVars, algVars>>

VecSwap ==
    /\ vec # NullVec
    /\ call.shell = "none"
    /\ \E null_handle \in BOOLEAN, index \in OpIndexes, item_io \in OpItemArgs :
          LET h == IF null_handle THEN NullVec ELSE vec
              r == mu_vec_swap(h, index, item_io)
          IN
          /\ vec' = IF null_handle THEN vec ELSE r.v
          /\ call' = OpCall("vec", "swap", vec, r)
    /\ UNCHANGED <<pvec, queue, pqueue>>
    /\ UNCHANGED <<spscVars, algVars>>

VecPush ==
    /\ vec # NullVec
    /\ call.shell = "none"
    /\ \E null_handle \in BOOLEAN, item_in \in OpItemArgs :
          LET h == IF null_handle THEN NullVec ELSE vec
              r == call_mu_vec_push(h, item_in)
          IN
          /\ vec' = IF null_handle THEN vec ELSE r.v
          /\ call' = OpCall("vec", "push", vec, r)
    /\ UNCHANGED <<pvec, queue, pqueue>>
    /\ UNCHANGED <<spscVars, algVars>>

VecPop ==
    /\ vec # NullVec
    /\ call.shell = "none"
    /\ \E null_handle \in BOOLEAN :
          LET h == IF null_handle THEN NullVec ELSE vec
              r == mu_vec_pop(h)
          IN
          /\ vec' = IF null_handle THEN vec ELSE r.v
          /\ call' = OpCall("vec", "pop", vec, r)
    /\ UNCHANGED <<pvec, queue, pqueue>>
    /\ UNCHANGED <<spscVars, algVars>>

VecInsert ==
    /\ vec # NullVec
    /\ call.shell = "none"
    /\ \E null_handle \in BOOLEAN, index \in OpIndexes, item_in \in OpItemArgs :
          LET h == IF null_handle THEN NullVec ELSE vec
              r == call_mu_vec_insert(h, index, item_in)
          IN
          /\ vec' = IF null_handle THEN vec ELSE r.v
          /\ call' = OpCall("vec", "insert", vec, r)
    /\ UNCHANGED <<pvec, queue, pqueue>>
    /\ UNCHANGED <<spscVars, algVars>>

VecDelete ==
    /\ vec # NullVec
    /\ call.shell = "none"
    /\ \E null_handle \in BOOLEAN, index \in OpIndexes :
          LET h == IF null_handle THEN NullVec ELSE vec
              r == mu_vec_delete(h, index)
          IN
          /\ vec' = IF null_handle THEN vec ELSE r.v
          /\ call' = OpCall("vec", "delete", vec, r)
    /\ UNCHANGED <<pvec, queue, pqueue>>
    /\ UNCHANGED <<spscVars, algVars>>

VecOpSortedInsert ==
    /\ vec # NullVec
    /\ call.shell = "none"
    /\ \E null_handle \in BOOLEAN, item_in \in OpItemArgs, policy \in Policies \cup {PolicyInvalid} :
          LET h == IF null_handle THEN NullVec ELSE vec
              r == mu_vec_sorted_insert(h, item_in, policy)
          IN
          /\ vec' = IF null_handle THEN vec ELSE r.v
          /\ call' = OpCall("vec", "sorted_insert", vec, r)
    /\ UNCHANGED <<pvec, queue, pqueue>>
    /\ UNCHANGED <<spscVars, algVars>>

PvecInsert ==
    /\ pvec # NullPvec
    /\ call.shell = "none"
    /\ \E null_handle \in BOOLEAN, index \in OpIndexes, item \in OpItems :
          LET h == IF null_handle THEN NullPvec ELSE pvec
              r == mu_pvec_insert(h, item, index)
          IN
          /\ pvec' = IF null_handle THEN pvec ELSE r.v
          /\ call' = OpCall("pvec", "insert", pvec, r)
    /\ UNCHANGED <<vec, queue, pqueue>>
    /\ UNCHANGED <<spscVars, algVars>>

PvecDelete ==
    /\ pvec # NullPvec
    /\ call.shell = "none"
    /\ \E null_handle \in BOOLEAN, index \in OpIndexes :
          LET h == IF null_handle THEN NullPvec ELSE pvec
              r == mu_pvec_delete(h, index)
          IN
          /\ pvec' = IF null_handle THEN pvec ELSE r.v
          /\ call' = OpCall("pvec", "delete", pvec, r)
    /\ UNCHANGED <<vec, queue, pqueue>>
    /\ UNCHANGED <<spscVars, algVars>>

PvecReplace ==
    /\ pvec # NullPvec
    /\ call.shell = "none"
    /\ \E null_handle \in BOOLEAN, index \in OpIndexes, item \in OpItems :
          LET h == IF null_handle THEN NullPvec ELSE pvec
              r == mu_pvec_replace(h, item, index)
          IN
          /\ pvec' = IF null_handle THEN pvec ELSE r.v
          /\ call' = OpCall("pvec", "replace", pvec, r)
    /\ UNCHANGED <<vec, queue, pqueue>>
    /\ UNCHANGED <<spscVars, algVars>>

PvecPush ==
    /\ pvec # NullPvec
    /\ call.shell = "none"
    /\ \E null_handle \in BOOLEAN, item \in OpItems :
          LET h == IF null_handle THEN NullPvec ELSE pvec
              r == mu_pvec_push(h, item)
          IN
          /\ pvec' = IF null_handle THEN pvec ELSE r.v
          /\ call' = OpCall("pvec", "push", pvec, r)
    /\ UNCHANGED <<vec, queue, pqueue>>
    /\ UNCHANGED <<spscVars, algVars>>

PvecPop ==
    /\ pvec # NullPvec
    /\ call.shell = "none"
    /\ \E null_handle \in BOOLEAN, has_item \in BOOLEAN :
          LET h == IF null_handle THEN NullPvec ELSE pvec
              r == mu_pvec_pop(h, has_item)
          IN
          /\ pvec' = IF null_handle THEN pvec ELSE r.v
          /\ call' = OpCall("pvec", "pop", pvec, r)
    /\ UNCHANGED <<vec, queue, pqueue>>
    /\ UNCHANGED <<spscVars, algVars>>

PvecOpSortedInsert ==
    /\ pvec # NullPvec
    /\ call.shell = "none"
    /\ \E null_handle \in BOOLEAN, item \in OpItemArgs, policy \in Policies \cup {PolicyInvalid} :
          LET h == IF null_handle THEN NullPvec ELSE pvec
              r == mu_pvec_sorted_insert(h, item, policy)
          IN
          /\ pvec' = IF null_handle THEN pvec ELSE r.v
          /\ call' = OpCall("pvec", "sorted_insert", pvec, r)
    /\ UNCHANGED <<vec, queue, pqueue>>
    /\ UNCHANGED <<spscVars, algVars>>

QueuePut ==
    /\ queue # NullQueue
    /\ call.shell = "none"
    /\ \E null_handle \in BOOLEAN, item_in \in OpItemArgs :
          LET h == IF null_handle THEN NullQueue ELSE queue
              r == mu_queue_put(h, item_in)
          IN
          /\ queue' = IF null_handle THEN queue ELSE r.v
          /\ call' = OpCall("queue", "put", queue, r)
    /\ UNCHANGED <<vec, pvec, pqueue>>
    /\ UNCHANGED <<spscVars, algVars>>

QueueGet ==
    /\ queue # NullQueue
    /\ call.shell = "none"
    /\ \E null_handle \in BOOLEAN :
          LET h == IF null_handle THEN NullQueue ELSE queue
              r == mu_queue_get(h)
          IN
          /\ queue' = IF null_handle THEN queue ELSE r.v
          /\ call' = OpCall("queue", "get", queue, r)
    /\ UNCHANGED <<vec, pvec, pqueue>>
    /\ UNCHANGED <<spscVars, algVars>>

PqueuePut ==
    /\ pqueue # NullPqueue
    /\ call.shell = "none"
    /\ \E null_handle \in BOOLEAN, item_in \in OpItemArgs :
          LET h == IF null_handle THEN NullPqueue ELSE pqueue
              r == mu_pqueue_put(h, item_in)
          IN
          /\ pqueue' = IF null_handle THEN pqueue ELSE r.v
          /\ call' = OpCall("pqueue", "put", pqueue, r)
    /\ UNCHANGED <<vec, pvec, queue>>
    /\ UNCHANGED <<spscVars, algVars>>

PqueueGet ==
    /\ pqueue # NullPqueue
    /\ call.shell = "none"
    /\ \E null_handle \in BOOLEAN, has_out \in BOOLEAN :
          LET h == IF null_handle THEN NullPqueue ELSE pqueue
              r == mu_pqueue_get(h, has_out)
          IN
          /\ pqueue' = IF null_handle THEN pqueue ELSE r.v
          /\ call' = OpCall("pqueue", "get", pqueue, r)
    /\ UNCHANGED <<vec, pvec, queue>>
    /\ UNCHANGED <<spscVars, algVars>>

VecClear ==
    /\ vec # NullVec
    /\ call.shell = "none"
    /\ \E null_handle \in BOOLEAN :
          LET h == IF null_handle THEN NullVec ELSE vec
              r == mu_vec_clear(h)
          IN
          /\ vec' = IF null_handle THEN vec ELSE r.v
          /\ call' = OpCall("vec", "clear", vec, r)
    /\ UNCHANGED <<pvec, queue, pqueue>>
    /\ UNCHANGED <<spscVars, algVars>>

VecPeek ==
    /\ vec # NullVec
    /\ call.shell = "none"
    /\ \E null_handle \in BOOLEAN, has_out \in BOOLEAN :
          LET h == IF null_handle THEN NullVec ELSE vec
              r == mu_vec_peek(h, has_out)
          IN
          /\ vec' = IF null_handle THEN vec ELSE r.v
          /\ call' = OpCall("vec", "peek", vec, r)
    /\ UNCHANGED <<pvec, queue, pqueue>>
    /\ UNCHANGED <<spscVars, algVars>>

PvecClear ==
    /\ pvec # NullPvec
    /\ call.shell = "none"
    /\ \E null_handle \in BOOLEAN :
          LET h == IF null_handle THEN NullPvec ELSE pvec
              r == mu_pvec_clear(h)
          IN
          /\ pvec' = IF null_handle THEN pvec ELSE r.v
          /\ call' = OpCall("pvec", "clear", pvec, r)
    /\ UNCHANGED <<vec, queue, pqueue>>
    /\ UNCHANGED <<spscVars, algVars>>

QueueClear ==
    /\ queue # NullQueue
    /\ call.shell = "none"
    /\ \E null_handle \in BOOLEAN :
          LET h == IF null_handle THEN NullQueue ELSE queue
              r == mu_queue_clear(h)
          IN
          /\ queue' = IF null_handle THEN queue ELSE r.v
          /\ call' = OpCall("queue", "clear", queue, r)
    /\ UNCHANGED <<vec, pvec, pqueue>>
    /\ UNCHANGED <<spscVars, algVars>>

QueuePeek ==
    /\ queue # NullQueue
    /\ call.shell = "none"
    /\ \E null_handle \in BOOLEAN, has_out \in BOOLEAN :
          LET h == IF null_handle THEN NullQueue ELSE queue
              r == mu_queue_peek(h, has_out)
          IN
          /\ queue' = IF null_handle THEN queue ELSE r.v
          /\ call' = OpCall("queue", "peek", queue, r)
    /\ UNCHANGED <<vec, pvec, pqueue>>
    /\ UNCHANGED <<spscVars, algVars>>

PqueueClear ==
    /\ pqueue # NullPqueue
    /\ call.shell = "none"
    /\ \E null_handle \in BOOLEAN :
          LET h == IF null_handle THEN NullPqueue ELSE pqueue
              r == mu_pqueue_clear(h)
          IN
          /\ pqueue' = IF null_handle THEN pqueue ELSE r.v
          /\ call' = OpCall("pqueue", "clear", pqueue, r)
    /\ UNCHANGED <<vec, pvec, queue>>
    /\ UNCHANGED <<spscVars, algVars>>

PqueuePeek ==
    /\ pqueue # NullPqueue
    /\ call.shell = "none"
    /\ \E null_handle \in BOOLEAN, has_out \in BOOLEAN :
          LET h == IF null_handle THEN NullPqueue ELSE pqueue
              r == mu_pqueue_peek(h, has_out)
          IN
          /\ pqueue' = IF null_handle THEN pqueue ELSE r.v
          /\ call' = OpCall("pqueue", "peek", pqueue, r)
    /\ UNCHANGED <<vec, pvec, queue>>
    /\ UNCHANGED <<spscVars, algVars>>

(***************************************************************************)
(* find and rfind of the two vectors                                       *)
(***************************************************************************)
\* the predicates of the tests: the element's value, or its id, equals *arg
find_test_item_by_value_fn(element, arg) == element.key = arg
find_test_item_by_id_fn(element, arg) == element.id = arg

FindFns == {"find_test_item_by_value_fn", "find_test_item_by_id_fn"}
NoFindFn == "NULL"
FindArgs == 1..NKeys

\* find_fn(element_ptr, arg)
ApplyFind(find_fn, element, arg) ==
    IF find_fn = "find_test_item_by_value_fn"
    THEN find_test_item_by_value_fn(element, arg)
    ELSE find_test_item_by_id_fn(element, arg)

NotFound(v) == [v |-> v, err |-> MU_STORE_ERR_NOTFOUND]
FoundAt(v, i) == [v |-> v, err |-> MU_STORE_ERR_NONE, index |-> i]

\* the loop of mu_vec_find without the return at the first match: the
\* last match is the one reported
RECURSIVE vec_find_loop_mut(_, _, _, _)
vec_find_loop_mut(v, find_fn, arg, i) ==
    IF ~(i < v.count) THEN NotFound(v)
    ELSE LET rest == vec_find_loop_mut(v, find_fn, arg, i + 1)
         IN  IF rest.err = MU_STORE_ERR_NONE THEN rest
             ELSE IF ApplyFind(find_fn, v.items[i], arg) THEN FoundAt(v, i)
             ELSE NotFound(v)

\* for (i = 0; i < v->count; ++i) if (find_fn(item_address, arg)) ...
RECURSIVE vec_find_loop(_, _, _, _)
vec_find_loop(v, find_fn, arg, i) ==
    IF ~(i < v.count) THEN NotFound(v)
    ELSE IF ApplyFind(find_fn, v.items[i], arg) THEN FoundAt(v, i)
    ELSE vec_find_loop(v, find_fn, arg, i + 1)

\* for (i = v->count; i > 0; --i) { current_index = i - 1; ... }
RECURSIVE vec_rfind_loop(_, _, _, _)
vec_rfind_loop(v, find_fn, arg, i) ==
    IF ~(i > 0) THEN NotFound(v)
    ELSE IF ApplyFind(find_fn, v.items[i - 1], arg) THEN FoundAt(v, i - 1)
    ELSE vec_rfind_loop(v, find_fn, arg, i - 1)

\* has_out: index_out is present
mu_vec_find(v, find_fn, arg, has_out) ==
    IF v = NullVec \/ find_fn = NoFindFn \/ ~has_out THEN ParamErr(v)
    ELSE IF mu_vec_is_empty(v) THEN NotFound(v)
    ELSE vec_find_loop(v, find_fn, arg, 0)

mu_vec_rfind(v, find_fn, arg, has_out) ==
    IF v = NullVec \/ find_fn = NoFindFn \/ ~has_out THEN ParamErr(v)
    ELSE IF mu_vec_is_empty(v) THEN NotFound(v)
    ELSE vec_rfind_loop(v, find_fn, arg, v.count)

\* the pointer vector passes the stored pointer to find_fn, which reads the
\* item it points to
\* for (i = 0; i < v->count; i++) if (find_fn(v->item_store[i], arg)) ...
RECURSIVE pvec_find_loop(_, _, _, _)
pvec_find_loop(v, find_fn, arg, i) ==
    IF ~(i < v.count) THEN NotFound(v)
    ELSE IF ApplyFind(find_fn, ObjAt(v.item_store[i]), arg) THEN FoundAt(v, i)
    ELSE pvec_find_loop(v, find_fn, arg, i + 1)

\* for (i = v->count; i-- > 0;) : i is decremented before the body runs
RECURSIVE pvec_rfind_loop(_, _, _, _)
pvec_rfind_loop(v, find_fn, arg, i) ==
    IF ~(i > 0) THEN NotFound(v)
    ELSE IF ApplyFind(find_fn, ObjAt(v.item_store[i - 1]), arg)
         THEN FoundAt(v, i - 1)
         ELSE pvec_rfind_loop(v, find_fn, arg, i - 1)

mu_pvec_find(v, find_fn, arg, has_out) ==
    IF v = NullPvec \/ find_fn = NoFindFn \/ ~has_out THEN ParamErr(v)
    ELSE pvec_find_loop(v, find_fn, arg, 0)

mu_pvec_rfind(v, find_fn, arg, has_out) ==
    IF v = NullPvec \/ find_fn = NoFindFn \/ ~has_out THEN ParamErr(v)
    ELSE pvec_rfind_loop(v, find_fn, arg, v.count)

VecFind ==
    /\ vec # NullVec
    /\ call.shell = "none"
    /\ \E null_handle \in BOOLEAN, find_fn \in FindFns \cup {NoFindFn},
          arg \in FindArgs, has_out \in BOOLEAN :
          LET h == IF null_handle THEN NullVec ELSE vec
              r == mu_vec_find(h, find_fn, arg, has_out)
          IN
          /\ vec' = IF null_handle THEN vec ELSE r.v
          /\ call' = OpCall("vec", "find", vec, r)
    /\ UNCHANGED <<pvec, queue, pqueue>>
    /\ UNCHANGED <<spscVars, algVars>>

VecRfind ==
    /\ vec # NullVec
    /\ call.shell = "none"
    /\ \E null_handle \in BOOLEAN, find_fn \in FindFns \cup {NoFindFn},
          arg \in FindArgs, has_out \in BOOLEAN :
          LET h == IF null_handle THEN NullVec ELSE vec
              r == mu_vec_rfind(h, find_fn, arg, has_out)
          IN
          /\ vec' = IF null_handle THEN vec ELSE r.v
          /\ call' = OpCall("vec", "rfind", vec, r)
    /\ UNCHANGED <<pvec, queue, pqueue>>
    /\ UNCHANGED <<spscVars, algVars>>

PvecFind ==
    /\ pvec # NullPvec
    /\ call.shell = "none"
    /\ \E null_handle \in BOOLEAN, find_fn \in FindFns \cup {NoFindFn},
          arg \in FindArgs, has_out \in BOOLEAN :
          LET h == IF null_handle THEN NullPvec ELSE pvec
              r == mu_pvec_find(h, find_fn, arg, has_out)
          IN
          /\ pvec' = IF null_handle THEN pvec ELSE r.v
          /\ call' = OpCall("pvec", "find", pvec, r)
    /\ UNCHANGED <<vec, queue, pqueue>>
    /\ UNCHANGED <<spscVars, algVars>>

PvecRfind ==
    /\ pvec # NullPvec
    /\ call.shell = "none"
    /\ \E null_handle \in BOOLEAN, find_fn \in FindFns \cup {NoFindFn},
          arg \in FindArgs, has_out \in BOOLEAN :
          LET h == IF null_handle THEN NullPvec ELSE pvec
              r == mu_pvec_rfind(h, find_fn, arg, has_out)
          IN
          /\ pvec' = IF null_handle THEN pvec ELSE r.v
          /\ call' = OpCall("pvec", "rfind", pvec, r)
    /\ UNCHANGED <<vec, queue, pqueue>>
    /\ UNCHANGED <<spscVars, algVars>>

\* the caller has looked at the result of the call and goes on
OpReturn ==
    /\ call.shell # "none"
    /\ call' = NoOpCall
    /\ UNCHANGED <<vec, pvec, queue, pqueue>>
    /\ UNCHANGED <<spscVars, algVars>>

NextOps ==
    \/ VecReplace
    \/ VecSwap
    \/ VecPush
    \/ VecPop
    \/ VecInsert
    \/ VecDelete
    \/ VecOpSortedInsert
    \/ PvecInsert
    \/ PvecDelete
    \/ PvecReplace
    \/ PvecPush
    \/ PvecPop
    \/ PvecOpSortedInsert
    \/ QueuePut
    \/ QueueGet
    \/ PqueuePut
    \/ PqueueGet
    \/ VecClear
    \/ VecPeek
    \/ VecFind
    \/ VecRfind
    \/ PvecFind
    \/ PvecRfind
    \/ PvecClear
    \/ QueueClear
    \/ QueuePeek
    \/ PqueueClear
    \/ PqueuePeek
    \/ OpReturn
SpecOps == InitOps /\ [][NextOps]_vars

(***************************************************************************)
(* Properties of the plain operations                                      *)
(***************************************************************************)
OpNow(shell) ==
    CASE shell = "vec"    -> vec
      [] shell = "pvec"   -> pvec
      [] shell = "queue"  -> queue
      [] shell = "pqueue" -> pqueue

OpFailed == call.shell # "none" /\ call.err # MU_STORE_ERR_NONE

\* C17: a mutating call on a vector, pointer vector, queue or pointer queue
\* (push, pop, insert, delete, replace, swap, put, get, sorted_insert) that
\* returns an error leaves the whole container - count, head, tail and
\* every slot of the store - as it was before the call.
C17_ErrorLeavesContainer ==
    OpFailed => OpNow(call.shell) = call.pre

\* a put on a full queue whose ring has wrapped has returned FULL
C17_Witness ==
    /\ call.shell = "queue"
    /\ call.op = "put"
    /\ call.err = MU_STORE_ERR_FULL
    /\ call.pre.head # 0
    /\ call.pre.count = call.pre.capacity
    /\ queue = call.pre

\* C22: in every state reachable from a successful init by any sequence of
\* operations, each of the four shells has 0 <= count <= capacity, is_full
\* exactly when count = capacity and is_empty exactly when count = 0.
C22_CountWithinCapacity ==
    /\ vec # NullVec =>
          /\ mu_vec_count(vec) \in 0..mu_vec_capacity(vec)
          /\ mu_vec_is_full(vec) <=> mu_vec_count(vec) = mu_vec_capacity(vec)
          /\ mu_vec_is_empty(vec) <=> mu_vec_count(vec) = 0
    /\ pvec # NullPvec =>
          /\ mu_pvec_count(pvec) \in 0..mu_pvec_capacity(pvec)
          /\ mu_pvec_is_full(pvec) <=> mu_pvec_count(pvec) = mu_pvec_capacity(pvec)
          /\ mu_pvec_is_empty(pvec) <=> mu_pvec_count(pvec) = 0
    /\ queue # NullQueue =>
          /\ mu_queue_count(queue) \in 0..mu_queue_capacity(queue)
          /\ mu_queue_is_full(queue) <=> mu_queue_count(queue) = mu_queue_capacity(queue)
          /\ mu_queue_is_empty(queue) <=> mu_queue_count(queue) = 0
    /\ pqueue # NullPqueue =>
          /\ mu_pqueue_count(pqueue) \in 0..mu_pqueue_capacity(pqueue)
          /\ mu_pqueue_is_full(pqueue) <=> mu_pqueue_count(pqueue) = mu_pqueue_capacity(pqueue)
          /\ mu_pqueue_is_empty(pqueue) <=> mu_pqueue_count(pqueue) = 0

\* C22 witness: a push on a full pointer vector of capacity 2 or more has
\* returned FULL and the vector is still full
C22_Witness ==
    /\ call.shell = "pvec"
    /\ call.op = "push"
    /\ call.err = MU_STORE_ERR_FULL
    /\ pvec.capacity >= 2
    /\ mu_pvec_is_full(pvec)
    /\ mu_pvec_count(pvec) = mu_pvec_capacity(pvec)

\* the ring of a queue or pointer queue is well formed
RingOk(qq) ==
    /\ qq.head \in 0..(qq.capacity - 1)
    /\ qq.tail \in 0..(qq.capacity - 1)
    /\ qq.tail = (qq.head + qq.count) % qq.capacity
    /\ qq.head = qq.tail <=> (qq.count = 0 \/ qq.count = qq.capacity)

\* the slots in the circular range [head, tail), or all slots when full
RingSlots(qq) ==
    { (qq.head + k) % qq.capacity : k \in 0..(qq.count - 1) }

\* C23: in every state of a mu_queue or mu_pqueue reachable by init, put,
\* get, peek and clear, head < capacity, tail < capacity and
\* tail = (head + count) mod capacity; exactly count slots lie in the
\* circular range from head to tail, and head = tail both when the queue is
\* empty and when it is full.
C23_RingInvariant ==
    /\ queue # NullQueue =>
          (RingOk(queue) /\ Cardinality(RingSlots(queue)) = queue.count)
    /\ pqueue # NullPqueue =>
          (RingOk(pqueue) /\ Cardinality(RingSlots(pqueue)) = pqueue.count)

\* C23 witness: a put has filled a pointer queue whose head is not at slot 0
C23_Witness ==
    /\ call.shell = "pqueue"
    /\ call.op = "put"
    /\ call.err = MU_STORE_ERR_NONE
    /\ pqueue.count = pqueue.capacity
    /\ pqueue.head = pqueue.tail
    /\ pqueue.head # 0

(***************************************************************************)
(* A caller that puts items into and gets items from one mu_queue or one   *)
(* mu_pqueue and keeps the list of the items accepted and returned         *)
(***************************************************************************)
MaxFifoPuts == 5    \* successful puts per behaviour

NoFifoCall == [op |-> "none", err |-> MU_STORE_ERR_NONE, held |-> 0]

InitFifo ==
    /\ q = BlankQ
    /\ prod = <<>>
    /\ cons = <<>>
    /\ put_seq = <<>>
    /\ got_seq = <<>>
    /\ drv = NoFifoCall
    /\ vec = NullVec
    /\ pvec = NullPvec
    /\ call = <<>>
    /\ AlgUnused
    /\ \E capacity \in 1..MaxOpCap :
          \/ queue = mu_queue_init(TRUE, TRUE, capacity, ItemSize) /\ pqueue = NullPqueue
          \/ pqueue = mu_pqueue_init(TRUE, TRUE, capacity) /\ queue = NullQueue

\* mu_queue_put(&queue, &item)
FifoQueuePut ==
    /\ queue # NullQueue
    /\ Len(put_seq) < MaxFifoPuts
    /\ \E item_in \in OpItems :
          LET r == mu_queue_put(queue, item_in) IN
          /\ queue' = r.v
          /\ put_seq' = IF r.err = MU_STORE_ERR_NONE
                        THEN Append(put_seq, ObjAt(item_in)) ELSE put_seq
          /\ drv' = [op |-> "put", err |-> r.err, held |-> queue.count]
    /\ UNCHANGED <<q, prod, cons, got_seq, vec, pvec, pqueue, call>>
    /\ UNCHANGED algVars

\* mu_queue_get(&queue, &item_out)
FifoQueueGet ==
    /\ queue # NullQueue
    /\ LET r == mu_queue_get(queue) IN
          /\ queue' = r.v
          /\ got_seq' = IF r.err = MU_STORE_ERR_NONE
                        THEN Append(got_seq, r.item) ELSE got_seq
          /\ drv' = [op |-> "get", err |-> r.err, held |-> queue.count]
    /\ UNCHANGED <<q, prod, cons, put_seq, vec, pvec, pqueue, call>>
    /\ UNCHANGED algVars

\* mu_pqueue_put(&pqueue, item); the pointer may be NULL
FifoPqueuePut ==
    /\ pqueue # NullPqueue
    /\ Len(put_seq) < MaxFifoPuts
    /\ \E item_in \in OpItemArgs :
          LET r == mu_pqueue_put(pqueue, item_in) IN
          /\ pqueue' = r.v
          /\ put_seq' = IF r.err = MU_STORE_ERR_NONE
                        THEN Append(put_seq, item_in) ELSE put_seq
          /\ drv' = [op |-> "put", err |-> r.err, held |-> pqueue.count]
    /\ UNCHANGED <<q, prod, cons, got_seq, vec, pvec, queue, call>>
    /\ UNCHANGED algVars

\* mu_pqueue_get(&pqueue, &item_out)
FifoPqueueGet ==
    /\ pqueue # NullPqueue
    /\ LET r == mu_pqueue_get(pqueue, TRUE) IN
          /\ pqueue' = r.v
          /\ got_seq' = IF r.err = MU_STORE_ERR_NONE
                        THEN Append(got_seq, r.item) ELSE got_seq
          /\ drv' = [op |-> "get", err |-> r.err, held |-> pqueue.count]
    /\ UNCHANGED <<q, prod, cons, put_seq, vec, pvec, queue, call>>
    /\ UNCHANGED algVars

NextFifo == FifoQueuePut \/ FifoQueueGet \/ FifoPqueuePut \/ FifoPqueueGet
SpecFifo == InitFifo /\ [][NextFifo]_vars

FifoCapacity ==
    IF queue # NullQueue THEN queue.capacity ELSE pqueue.capacity
FifoCount ==
    IF queue # NullQueue THEN queue.count ELSE pqueue.count
FifoHead ==
    IF queue # NullQueue THEN queue.head ELSE pqueue.head

\* C24: the k-th successful get of a mu_queue or mu_pqueue returns the item
\* given to the k-th successful put, also when head and tail have wrapped;
\* the queue holds the items accepted and not yet returned, a put fails
\* (with FULL) exactly when capacity items are held and a get fails (with
\* EMPTY) exactly when none is held.
C24_QueueFifo ==
    /\ IsPrefix(got_seq, put_seq)
    /\ FifoCount = Len(put_seq) - Len(got_seq)
    /\ FifoCount <= FifoCapacity
    /\ drv.op = "put" =>
          /\ drv.err \in {MU_STORE_ERR_NONE, MU_STORE_ERR_FULL}
          /\ drv.err = MU_STORE_ERR_FULL <=> drv.held = FifoCapacity
    /\ drv.op = "get" =>
          /\ drv.err \in {MU_STORE_ERR_NONE, MU_STORE_ERR_EMPTY}
          /\ drv.err = MU_STORE_ERR_EMPTY <=> drv.held = 0

\* C24 witness: a queue of capacity 2 or more holds capacity items after
\* more than capacity items were returned, so the ring has wrapped
C24_Witness ==
    /\ FifoCapacity >= 2
    /\ FifoCount = FifoCapacity
    /\ Len(got_seq) > FifoCapacity
    /\ FifoHead # 0
    /\ drv.op = "put"
    /\ drv.err = MU_STORE_ERR_NONE

(***************************************************************************)
(* mu_pool: a fixed-size allocator over a caller's array of slots.  The     *)
(* free list is threaded through the slots: the first pointer-sized word    *)
(* of a free slot holds the address of the next free slot.                  *)
(*                                                                          *)
(* An address is [base, off]: base names the array it points into ("store") *)
(* or is "null" for addresses computed from a NULL item_store; off is the   *)
(* byte offset.  The memory of the backing store is a function from the     *)
(* byte offsets of the slots to the word stored at the start of each slot.  *)
(* A pool state is [pool, mem, ub]: the mu_pool_t (or NullPool), the        *)
(* backing store, and whether a call has written or read through an         *)
(* address that is in no array (undefined behaviour).                       *)
(***************************************************************************)
SIZEOF_VOID_PTR == 8

NullItem == [base |-> "null", off |-> 0]

NullPool == <<>>

\* &items[off] for char *items = (char *)pool->item_store
ItemAddr(item_store, off) == [base |-> item_store.base, off |-> item_store.off + off]

mu_pool_free_mut(st, item) ==
    IF item = NullItem
    THEN [ret |-> FALSE, st |-> st]
    ELSE [ret |-> TRUE,
          st  |-> [st EXCEPT !.pool.free_list = item]]

\* mu_pool_free: *(void **)item = pool->free_list; pool->free_list = item.
\* ret is TRUE when the pool is returned and FALSE when NULL is returned.
mu_pool_free(st, item) ==
    IF item = NullItem
    THEN [ret |-> FALSE, st |-> st]
    ELSE IF item.base = "store" /\ item.off \in DOMAIN st.mem
    THEN [ret |-> TRUE,
          st  |-> [st EXCEPT !.mem[item.off] = st.pool.free_list,
                             !.pool.free_list = item]]
    ELSE [ret |-> TRUE,
          st  |-> [st EXCEPT !.pool.free_list = item, !.ub = TRUE]]

mu_pool_alloc_mut(st) ==
    [item |-> st.pool.free_list,
     st   |-> [st EXCEPT !.pool.free_list = NullItem]]

\* mu_pool_alloc: pops the head of the free list; item is NullItem when the
\* list is empty.
mu_pool_alloc(st) ==
    IF st.pool.free_list = NullItem
    THEN [item |-> NullItem, st |-> st]
    ELSE LET item == st.pool.free_list
         IN  IF item.base = "store" /\ item.off \in DOMAIN st.mem
             THEN [item |-> item,
                   st   |-> [st EXCEPT !.pool.free_list = st.mem[item.off]]]
             ELSE [item |-> item,
                   st   |-> [st EXCEPT !.pool.free_list = NullItem, !.ub = TRUE]]

\* the for loop of mu_pool_reset from index i on
RECURSIVE reset_loop(_, _)
reset_loop(st, i) ==
    IF i >= st.pool.n_items
    THEN st
    ELSE reset_loop(mu_pool_free(st, ItemAddr(st.pool.item_store,
                                              i * st.pool.item_size)).st,
                    i + 1)

mu_pool_reset_mut(st) ==
    [st EXCEPT !.pool.free_list = NullItem]

\* mu_pool_reset: empties the free list, then frees every slot in index order
mu_pool_reset(st) ==
    reset_loop([st EXCEPT !.pool.free_list = NullItem], 0)

mu_pool_init_mut(has_pool, item_store, n_items, item_size, st) ==
    IF item_size < SIZEOF_VOID_PTR \/ ~has_pool
    THEN [st EXCEPT !.pool = NullPool]
    ELSE [st EXCEPT !.pool = [item_store |-> item_store, free_list |-> NullItem,
                              item_size |-> item_size, n_items |-> n_items]]

\* mu_pool_init: has_pool is FALSE for a NULL pool argument; the result's
\* pool is NullPool when NULL is returned.
mu_pool_init(has_pool, item_store, n_items, item_size, st) ==
    IF item_size < SIZEOF_VOID_PTR
    THEN [st EXCEPT !.pool = NullPool]
    ELSE IF ~has_pool
    THEN [st EXCEPT !.pool = NullPool]
    ELSE mu_pool_reset([st EXCEPT !.pool =
             [item_store |-> item_store, free_list |-> NullItem,
              item_size |-> item_size, n_items |-> n_items]])

(***************************************************************************)
(* SpecPool: one pool over a backing store of n_items slots, initialised    *)
(* as test_mu_pool.c's setUp does, then any sequence of mu_pool_alloc,      *)
(* mu_pool_free of a slot the caller holds (or of NULL), mu_pool_reset and  *)
(* writes of the caller into a slot it holds.                               *)
(*   pool.st     the pool state [pool, mem, ub]                             *)
(*   pool.held   the slots returned by alloc and not given back             *)
(*   pool.run    the results of the allocs since the last init or reset,    *)
(*               recorded while no free has been called (pool.fresh)        *)
(*   pool.built  the call that last built the free list: "init" or "reset"  *)
(*   pool.call   the last call [op, item, ret, held], held being the number *)
(*               of slots the caller held when it was made                  *)
(*   pool.last   the call before it                                         *)
(*   pool.before the pool state before the alloc that was the last call,    *)
(*               kept by the free that gives its slot back                  *)
(***************************************************************************)
MaxPoolItems == 3   \* slots of the backing store

PoolItemSizes == {SIZEOF_VOID_PTR, 2 * SIZEOF_VOID_PTR}

\* what a caller's data looks like when read as a link
Junk == [base |-> "junk", off |-> 0]

pool_storage == [base |-> "store", off |-> 0]

\* the byte offsets of the slots of an array of n_items items
SlotOffsets(n_items, item_size) == {i * item_size : i \in 0..(n_items - 1)}

\* the addresses of the slots of the pool's backing store
PoolSlots(st) ==
    {ItemAddr(st.pool.item_store, off) :
        off \in SlotOffsets(st.pool.n_items, st.pool.item_size)}

\* an array of n_items uninitialised items, and no pool yet
FreshStore(n_items, item_size) ==
    [pool |-> NullPool,
     mem  |-> [off \in SlotOffsets(n_items, item_size) |-> Junk],
     ub   |-> FALSE]

NoPoolCall == [op |-> "none", item |-> NullItem, ret |-> TRUE, held |-> 0]

PoolCall(op, item, ret) ==
    [op |-> op, item |-> item, ret |-> ret, held |-> Cardinality(pool.held)]

InitPool ==
    /\ SpscUnused
    /\ ShellUnused
    /\ srch = <<>>
    /\ hs = <<>>
    /\ \E n_items \in 1..MaxPoolItems, item_size \in PoolItemSizes :
          pool = [st     |-> mu_pool_init(TRUE, pool_storage, n_items, item_size,
                                          FreshStore(n_items, item_size)),
                  held   |-> {},
                  run    |-> <<>>,
                  fresh  |-> TRUE,
                  built  |-> "init",
                  call   |-> NoPoolCall,
                  last   |-> NoPoolCall,
                  before |-> <<>>]

PoolAlloc ==
    /\ pool # <<>>
    /\ pool.fresh => Len(pool.run) <= pool.st.pool.n_items
    /\ LET r == mu_pool_alloc(pool.st)
       IN  pool' = [pool EXCEPT
                       !.st     = r.st,
                       !.held   = IF r.item = NullItem THEN @ ELSE @ \cup {r.item},
                       !.run    = IF pool.fresh THEN Append(@, r.item) ELSE @,
                       !.call   = PoolCall("alloc", r.item, r.item # NullItem),
                       !.last   = pool.call,
                       !.before = pool.st]
    /\ UNCHANGED <<spscVars, shellVars, srch, hs>>

PoolFree ==
    /\ pool # <<>>
    /\ \E item \in pool.held \cup {NullItem} :
          LET r == mu_pool_free(pool.st, item)
          IN  pool' = [pool EXCEPT
                          !.st    = r.st,
                          !.held  = @ \ {item},
                          !.run   = <<>>,
                          !.fresh = FALSE,
                          !.call   = PoolCall("free", item, r.ret),
                          !.last   = pool.call,
                          !.before = IF pool.call.op = "alloc"
                                        /\ pool.call.item = item
                                        /\ item # NullItem
                                     THEN @ ELSE <<>>]
    /\ UNCHANGED <<spscVars, shellVars, srch, hs>>

PoolReset ==
    /\ pool # <<>>
    /\ pool' = [pool EXCEPT
                   !.st    = mu_pool_reset(pool.st),
                   !.held  = {},
                   !.run   = <<>>,
                   !.fresh = TRUE,
                   !.built = "reset",
                   !.call   = PoolCall("reset", NullItem, TRUE),
                   !.last   = pool.call,
                   !.before = <<>>]
    /\ UNCHANGED <<spscVars, shellVars, srch, hs>>

\* the caller stores its own data in a slot it holds
PoolUserWrite ==
    /\ pool # <<>>
    /\ \E item \in pool.held :
          /\ pool.st.mem[item.off] # Junk
          /\ pool' = [pool EXCEPT !.st.mem[item.off] = Junk]
    /\ UNCHANGED <<spscVars, shellVars, srch, hs>>

NextPool ==
    \/ PoolAlloc
    \/ PoolFree
    \/ PoolReset
    \/ PoolUserWrite

SpecPool == InitPool /\ [][NextPool]_vars

\* the items that successive mu_pool_alloc calls return, up to the first NULL
\* or until fuel calls were made
RECURSIVE AllocRun(_, _)
AllocRun(st, fuel) ==
    IF fuel = 0
    THEN <<>>
    ELSE LET r == mu_pool_alloc(st)
         IN  IF r.item = NullItem
             THEN <<>>
             ELSE <<r.item>> \o AllocRun(r.st, fuel - 1)

\* the addresses met when following the links from p, up to the first NULL
\* or the first address that is no slot, or until fuel links were followed
RECURSIVE FreeList(_, _, _)
FreeList(st, p, fuel) ==
    IF fuel = 0 \/ p = NullItem
    THEN <<>>
    ELSE IF p \notin PoolSlots(st)
    THEN <<p>>
    ELSE <<p>> \o FreeList(st, st.mem[p.off], fuel - 1)

Range(s) == {s[i] : i \in 1..Len(s)}

Distinct(s) == \A i, j \in 1..Len(s) : i # j => s[i] # s[j]

(***************************************************************************)
(* Properties of the pool                                                   *)
(***************************************************************************)
\* C25: from a freshly initialised or reset pool of n_items slots, the
\* first n_items consecutive allocs each return a slot of the backing store,
\* no slot twice, and the alloc after them returns NULL.
C25_PoolExhaustion ==
    pool.fresh =>
        LET n_items == pool.st.pool.n_items
            run     == pool.run
        IN  /\ \A k \in 1..Len(run) :
                  IF k <= n_items
                  THEN run[k] # NullItem /\ run[k] \in PoolSlots(pool.st)
                  ELSE run[k] = NullItem
            /\ Distinct(SubSeq(run, 1, IF Len(run) < n_items THEN Len(run)
                                       ELSE n_items))

\* C25 witness: a pool of 2 or more slots, reset after use, was then
\* allocated from n_items + 1 times in a row
C25_Witness ==
    /\ pool.fresh
    /\ pool.built = "reset"
    /\ pool.st.pool.n_items >= 2
    /\ Len(pool.run) = pool.st.pool.n_items + 1
    /\ pool.run[Len(pool.run)] = NullItem
    /\ \E off \in DOMAIN pool.st.mem : pool.st.mem[off] = Junk

\* the slots on the free list of the pool, in list order
PoolFreeList ==
    FreeList(pool.st, pool.st.pool.free_list, pool.st.pool.n_items + 1)

\* C26: after any sequence of alloc, free of a held slot and reset, every
\* slot of the backing store is either held by the caller or on the free
\* list and never both, the free list ends at NULL without visiting a slot
\* twice, and exactly as many allocs can succeed as slots are on the list.
C26_PoolPartition ==
    /\ ~pool.st.ub
    /\ Range(PoolFreeList) \subseteq PoolSlots(pool.st)
    /\ Distinct(PoolFreeList)
    /\ Len(PoolFreeList) <= pool.st.pool.n_items
    /\ Range(PoolFreeList) \cap pool.held = {}
    /\ Range(PoolFreeList) \cup pool.held = PoolSlots(pool.st)
    /\ Len(AllocRun(pool.st, pool.st.pool.n_items + 1)) = Len(PoolFreeList)

\* C26 witness: in a pool of 3 or more slots the caller holds a slot it has
\* written to, and frees have put two slots on the list in ascending order
\* (an init or a reset leaves them descending)
C26_Witness ==
    /\ pool.st.pool.n_items >= 3
    /\ pool.call.op = "free"
    /\ pool.call.ret
    /\ \E item \in pool.held : pool.st.mem[item.off] = Junk
    /\ Len(PoolFreeList) >= 2
    /\ PoolFreeList[1].off < PoolFreeList[2].off

\* what the pool owns of the memory of the store: the link words of the
\* slots that the caller does not hold
FreeWords(st, held) ==
    [off \in {o \in DOMAIN st.mem : ItemAddr(st.pool.item_store, o) \notin held}
        |-> st.mem[off]]

\* C27: the free list is last-in first-out: the alloc that follows the free
\* of a slot returns that slot, and when the free gives back the slot that
\* the call before it allocated, the mu_pool_t and the links in all slots
\* the caller does not hold are as they were before that alloc, whatever
\* the caller wrote into the slot in between.
C27_PoolLifo ==
    /\ (/\ pool.call.op = "alloc"
        /\ pool.last.op = "free"
        /\ pool.last.item # NullItem)
          => pool.call.item = pool.last.item
    /\ (/\ pool.call.op = "free"
        /\ pool.call.item # NullItem
        /\ pool.last.op = "alloc"
        /\ pool.last.item = pool.call.item)
          => /\ pool.st.pool = pool.before.pool
             /\ FreeWords(pool.st, pool.held) = FreeWords(pool.before, pool.held)
             /\ ~pool.st.ub

\* C27 witness: a slot was allocated while another slot was still free
\* behind it, written to by the caller, and freed again
C27_Witness ==
    /\ pool.call.op = "free"
    /\ pool.call.item # NullItem
    /\ pool.last.op = "alloc"
    /\ pool.last.item = pool.call.item
    /\ pool.before # <<>>
    /\ pool.held # {}
    /\ Len(PoolFreeList) >= 2
    /\ pool.built = "reset"

\* C28: after mu_pool_reset, whichever slots the caller held before it (none
\* up to all n_items), exactly n_items allocs succeed again and they return
\* every slot of the backing store once.
C28_ResetRestoresPool ==
    pool.call.op = "reset" =>
        LET allocs == AllocRun(pool.st, pool.st.pool.n_items + 1)
        IN  /\ pool.call.held \in 0..pool.st.pool.n_items
            /\ Len(allocs) = pool.st.pool.n_items
            /\ Distinct(allocs)
            /\ Range(allocs) = PoolSlots(pool.st)
            /\ ~pool.st.ub

\* C28 witness: a pool of 3 or more slots is reset while the caller holds
\* some but not all of its slots, after a free
C28_Witness ==
    /\ pool.call.op = "reset"
    /\ pool.st.pool.n_items >= 3
    /\ pool.call.held >= 1
    /\ pool.call.held < pool.st.pool.n_items
    /\ pool.last.op = "free"
    /\ pool.last.item # NullItem
    /\ Len(PoolFreeList) = pool.st.pool.n_items

(***************************************************************************)
(* SpecInit: the init call of each shell, with every combination of an      *)
(* absent or present handle, absent or present backing storage, a capacity  *)
(* from 0 up and an element size.  call records the arguments:              *)
(*   [shell, has_handle, has_store, capacity, item_size, ret]               *)
(* ret is TRUE when init returned the handle and FALSE when it returned     *)
(* NULL.  The variable of the shell holds what init made; InitReturn        *)
(* discards it.                                                             *)
(***************************************************************************)
MaxInitCap == 3     \* capacities 0..MaxInitCap

ByteItemSizes == {0, ItemSize}

PoolInitItemSizes == {0, SIZEOF_VOID_PTR - 1, SIZEOF_VOID_PTR, 2 * SIZEOF_VOID_PTR}

NoInitCall == [shell |-> "none", has_handle |-> FALSE, has_store |-> FALSE,
               capacity |-> 0, item_size |-> 0, ret |-> FALSE]

InitCall(shell, has_handle, has_store, capacity, item_size, ret) ==
    [shell |-> shell, has_handle |-> has_handle, has_store |-> has_store,
     capacity |-> capacity, item_size |-> item_size, ret |-> ret]

InitInit ==
    /\ SpscUnused
    /\ AlgUnused
    /\ vec = NullVec
    /\ pvec = NullPvec
    /\ queue = NullQueue
    /\ pqueue = NullPqueue
    /\ call = NoInitCall

VecInit ==
    /\ call.shell = "none"
    /\ \E has_v, has_store \in BOOLEAN, capacity \in 0..MaxInitCap,
          item_size \in ByteItemSizes :
          /\ vec' = mu_vec_init(has_v, has_store, capacity, item_size)
          /\ call' = InitCall("vec", has_v, has_store, capacity, item_size,
                              vec' # NullVec)
    /\ UNCHANGED <<spscVars, algVars, pvec, queue, pqueue>>

PvecInit ==
    /\ call.shell = "none"
    /\ \E has_v, has_store \in BOOLEAN, capacity \in 0..MaxInitCap :
          /\ pvec' = mu_pvec_init(has_v, has_store, capacity)
          /\ call' = InitCall("pvec", has_v, has_store, capacity, 0,
                              pvec' # NullPvec)
    /\ UNCHANGED <<spscVars, algVars, vec, queue, pqueue>>

QueueInit ==
    /\ call.shell = "none"
    /\ \E has_q, has_store \in BOOLEAN, n_items \in 0..MaxInitCap,
          item_size \in ByteItemSizes :
          /\ queue' = mu_queue_init(has_q, has_store, n_items, item_size)
          /\ call' = InitCall("queue", has_q, has_store, n_items, item_size,
                              queue' # NullQueue)
    /\ UNCHANGED <<spscVars, algVars, vec, pvec, pqueue>>

PqueueInit ==
    /\ call.shell = "none"
    /\ \E has_q, has_store \in BOOLEAN, n_items \in 0..MaxInitCap :
          /\ pqueue' = mu_pqueue_init(has_q, has_store, n_items)
          /\ call' = InitCall("pqueue", has_q, has_store, n_items, 0,
                              pqueue' # NullPqueue)
    /\ UNCHANGED <<spscVars, algVars, vec, pvec, queue>>

\* mu_pool_init; a call that wrote through an address computed from a NULL
\* item_store has undefined behaviour: it may return either result
PoolInit ==
    /\ call.shell = "none"
    /\ \E has_pool, has_store \in BOOLEAN, n_items \in 0..MaxInitCap,
          item_size \in PoolInitItemSizes :
          LET item_store == IF has_store THEN pool_storage ELSE NullItem
              store == FreshStore(IF has_store THEN n_items ELSE 0, item_size)
              r == mu_pool_init(has_pool, item_store, n_items, item_size, store)
          IN  \E st \in (IF r.ub THEN {r, [r EXCEPT !.pool = NullPool]} ELSE {r}) :
                 /\ pool' = [st |-> st]
                 /\ call' = InitCall("pool", has_pool, has_store, n_items,
                                     item_size, st.pool # NullPool)
    /\ UNCHANGED <<spscVars, vec, pvec, queue, pqueue, srch, hs>>

InitReturn ==
    /\ call.shell # "none"
    /\ vec' = NullVec
    /\ pvec' = NullPvec
    /\ queue' = NullQueue
    /\ pqueue' = NullPqueue
    /\ pool' = <<>>
    /\ call' = NoInitCall
    /\ UNCHANGED <<spscVars, srch, hs>>

NextInit ==
    \/ VecInit
    \/ PvecInit
    \/ QueueInit
    \/ PqueueInit
    \/ PoolInit
    \/ InitReturn

SpecInit == InitInit /\ [][NextInit]_vars

\* the arguments for which the initialization contract makes init fail
InitMustFail ==
    \/ ~call.has_store
    \/ call.capacity = 0
    \/ call.shell \in {"vec", "queue"} /\ call.item_size = 0
    \/ call.shell = "pool" /\ call.item_size < SIZEOF_VOID_PTR

\* what init left behind is an empty container of the capacity asked for
InitMadeEmpty ==
    /\ call.shell = "vec" =>
          vec # NullVec /\ vec.count = 0 /\ vec.capacity = call.capacity
    /\ call.shell = "pvec" =>
          pvec # NullPvec /\ pvec.count = 0 /\ pvec.capacity = call.capacity
    /\ call.shell = "queue" =>
          queue # NullQueue /\ queue.count = 0 /\ queue.capacity = call.capacity
    /\ call.shell = "pqueue" =>
          pqueue # NullPqueue /\ pqueue.count = 0 /\ pqueue.capacity = call.capacity
    /\ call.shell = "pool" =>
          /\ pool.st.pool # NullPool
          /\ ~pool.st.ub
          /\ Len(PoolFreeList) = call.capacity
          /\ Range(PoolFreeList) = PoolSlots(pool.st)

\* C29: init of every shell, given a handle, returns NULL and makes no
\* container when the storage is absent, the capacity is zero, the element
\* size is zero (mu_vec, mu_queue) or the item size is below one pointer
\* (mu_pool); otherwise it returns the handle of an empty container (pool:
\* all n_items slots free).
C29_InitContract ==
    (call.shell # "none" /\ call.has_handle) =>
        IF InitMustFail
        THEN /\ ~call.ret
             /\ vec = NullVec /\ pvec = NullPvec
             /\ queue = NullQueue /\ pqueue = NullPqueue
             /\ call.shell = "pool" => pool.st.pool = NullPool
        ELSE call.ret /\ InitMadeEmpty

\* the same contract for the four container shells only
C29_ContainerShellsInit ==
    call.shell \in {"vec", "pvec", "queue", "pqueue"} => C29_InitContract

\* a mu_pool_init that was given a zero n_items or a NULL item_store and an
\* item size of a pointer or more, and returned the pool
C29_PoolInitAccepted ==
    /\ call.shell = "pool"
    /\ call.has_handle
    /\ call.item_size >= SIZEOF_VOID_PTR
    /\ call.capacity = 0 \/ ~call.has_store
    /\ call.ret
    /\ ~pool.st.ub
    /\ PoolFreeList = <<>>

\* what the four accessors return for the handle each shell holds
VecAccessors ==
    [capacity |-> mu_vec_capacity(vec), count |-> mu_vec_count(vec),
     is_empty |-> mu_vec_is_empty(vec), is_full |-> mu_vec_is_full(vec)]

PvecAccessors ==
    [capacity |-> mu_pvec_capacity(pvec), count |-> mu_pvec_count(pvec),
     is_empty |-> mu_pvec_is_empty(pvec), is_full |-> mu_pvec_is_full(pvec)]

QueueAccessors ==
    [capacity |-> mu_queue_capacity(queue), count |-> mu_queue_count(queue),
     is_empty |-> mu_queue_is_empty(queue), is_full |-> mu_queue_is_full(queue)]

PqueueAccessors ==
    [capacity |-> mu_pqueue_capacity(pqueue), count |-> mu_pqueue_count(pqueue),
     is_empty |-> mu_pqueue_is_empty(pqueue), is_full |-> mu_pqueue_is_full(pqueue)]

EmptyNotFull == [capacity |-> 0, count |-> 0, is_empty |-> TRUE, is_full |-> FALSE]

EmptyAndFull == [capacity |-> 0, count |-> 0, is_empty |-> TRUE, is_full |-> TRUE]

MaxHeapLen == 4     \* arrays hold 0 .. MaxHeapLen elements
NHeapItems == 5     \* their elements are the items at addresses 1 .. NHeapItems

HeapInputs == UNION { [1..n -> 1..NHeapItems] : n \in 0..MaxHeapLen }

\* heapify_items or heapify_pointers, as the function called uses
HeapSift(base, n, i) ==
    IF hs.called = "mu_store_sort"
    THEN heapify_items(base, n, i, ItemSize, hs.compare_fn)
    ELSE heapify_pointers(base, n, i, hs.compare_fn)

\* swap_items or swap_pointers, as the function called uses
HeapSwap(base, a, b) ==
    IF hs.called = "mu_store_sort"
    THEN swap_items(base, a, b)
    ELSE swap_pointers(base, a, b)

InitHeap ==
    /\ SpscUnused
    /\ ShellUnused
    /\ srch = <<>>
    /\ pool = <<>>
    /\ \E arr \in HeapInputs :
          \/ \E compare_fn \in CompareItemFns :
                hs = [input |-> arr, called |-> "mu_store_sort",
                      compare_fn |-> compare_fn,
                      base |-> ItemBuffer(arr, MaxHeapLen),
                      phase |-> "call", i |-> 0]
          \/ \E compare_fn \in ComparePtrFns :
                hs = [input |-> arr, called |-> "mu_store_psort",
                      compare_fn |-> compare_fn,
                      base |-> PtrBuffer(arr, MaxHeapLen),
                      phase |-> "call", i |-> 0]

\* the checks of the arguments and of item_count <= 1, and the start of the
\* build loop: i = item_count / 2 - 1
HeapEnter ==
    /\ hs.phase = "call"
    /\ hs' = IF Len(hs.input) <= 1
             THEN [hs EXCEPT !.phase = "done"]
             ELSE [hs EXCEPT !.phase = "build",
                             !.i = Len(hs.input) \div 2 - 1]
    /\ UNCHANGED <<spscVars, shellVars, srch, pool>>

\* one iteration of the build loop; after the last one the extract loop
\* starts with i = item_count - 1
HeapBuildStep ==
    /\ hs.phase = "build"
    /\ hs.i >= 0
    /\ hs' = [hs EXCEPT
                 !.base  = HeapSift(hs.base, Len(hs.input), hs.i),
                 !.phase = IF hs.i - 1 >= 0 THEN "build" ELSE "extract",
                 !.i     = IF hs.i - 1 >= 0 THEN hs.i - 1
                           ELSE Len(hs.input) - 1]
    /\ UNCHANGED <<spscVars, shellVars, srch, pool>>

\* one iteration of the extract loop: swap the root with base[i], sift the
\* new root down the heap of size i, i--
HeapExtractStep ==
    /\ hs.phase = "extract"
    /\ hs.i > 0
    /\ hs' = [hs EXCEPT
                 !.base  = HeapSift(HeapSwap(hs.base, 0, hs.i), hs.i, 0),
                 !.phase = IF hs.i - 1 > 0 THEN "extract" ELSE "done",
                 !.i     = hs.i - 1]
    /\ UNCHANGED <<spscVars, shellVars, srch, pool>>

NextHeap == HeapEnter \/ HeapBuildStep \/ HeapExtractStep

SpecHeap == InitHeap /\ [][NextHeap]_vars

\* compare_fn(a, b) >= 0 for the comparator of the call
HeapGe(a, b) == compare(hs.compare_fn, a, b) >= 0

\* in base[0 .. n-1] every parent at index from or more compares >= both of
\* its children
IsMaxHeap(base, n, from) ==
    \A p \in from..(n - 1) :
        \A c \in {2 * p + 1, 2 * p + 2} :
            c < n => HeapGe(base[p], base[c])

\* the extract loop has run its iterations down to loop index hs.i + 1
HeapExtracting ==
    \/ hs.phase = "extract"
    \/ hs.phase = "done" /\ Len(hs.input) >= 2

\* C33: during the build loop every parent already sifted compares >= its
\* children, and after the loop every parent of the array does; after the
\* extraction step with loop index k (the state has i = k - 1) the suffix
\* [k, count) is ascending, each of its elements compares >= every element
\* of the prefix [0, k), and the prefix is a max-heap.
C33_HeapPhases ==
    LET count == Len(hs.input) IN
    /\ hs.phase = "build" => IsMaxHeap(hs.base, count, hs.i + 1)
    /\ (hs.phase = "extract" /\ hs.i = count - 1) => IsMaxHeap(hs.base, count, 0)
    /\ HeapExtracting =>
          LET k == hs.i + 1 IN
          /\ \A a, b \in k..(count - 1) : a < b => HeapGe(hs.base[b], hs.base[a])
          /\ \A s \in k..(count - 1) : \A p \in 0..(k - 1) :
                HeapGe(hs.base[s], hs.base[p])
          /\ IsMaxHeap(hs.base, k, 0)

\* C33 witness: the pointer sort by value of four elements that were not
\* a heap has extracted two of them and holds two in the heap
C33_Witness ==
    /\ hs.called = "mu_store_psort"
    /\ hs.compare_fn = "compare_pointers_by_value"
    /\ Len(hs.input) = 4
    /\ ~IsMaxHeap(PtrBuffer(hs.input, MaxHeapLen), 4, 0)
    /\ hs.phase = "extract"
    /\ hs.i = 1
    /\ compare(hs.compare_fn, hs.base[3], hs.base[2]) > 0
    /\ compare(hs.compare_fn, hs.base[2], hs.base[0]) > 0

(***************************************************************************)
(* SpecSift: mu_store_sort and mu_store_psort one call of heapify_items /   *)
(* heapify_pointers at a time, with a comparator that may return anything:  *)
(* each call of it returns a negative number, zero or a positive number     *)
(* whatever its arguments are and whatever it returned before.  The         *)
(* elements are told apart by the index they had in the input.              *)
(*   hs.count    item_count                                                 *)
(*   hs.base     the array: base[k] is the input index of the element at k  *)
(*   hs.phase    "call", "build", "extract", "done"                         *)
(*   hs.i        the loop variable of the loop the call is in               *)
(*   hs.sifting  a heapify call is running, with arguments hs.n and hs.pos  *)
(*   hs.from     the index of the heapify call that made this one, or -1    *)
(*   hs.touched  the indices passed to the comparator and to the swap by    *)
(*               the last step                                              *)
(***************************************************************************)
MaxSiftLen == 4     \* arrays hold 0 .. MaxSiftLen elements

CmpResults == {-1, 0, 1}

InitSift ==
    /\ SpscUnused
    /\ ShellUnused
    /\ srch = <<>>
    /\ pool = <<>>
    /\ \E count \in 0..MaxSiftLen, called \in {"mu_store_sort", "mu_store_psort"} :
          hs = [called |-> called, count |-> count,
                base |-> [k \in 0..(count - 1) |-> k],
                phase |-> "call", i |-> 0, sifting |-> FALSE, n |-> 0,
                pos |-> 0, from |-> -1, touched |-> {}]

\* item_count <= 1 returns at once; else the build loop starts at
\* i = item_count / 2 - 1
SiftEnter ==
    /\ hs.phase = "call"
    /\ hs' = IF hs.count <= 1
             THEN [hs EXCEPT !.phase = "done"]
             ELSE [hs EXCEPT !.phase = "build", !.i = hs.count \div 2 - 1]
    /\ UNCHANGED <<spscVars, shellVars, srch, pool>>

\* build loop, i >= 0: heapify(base, item_count, i)
SiftBuildCall ==
    /\ hs.phase = "build"
    /\ ~hs.sifting
    /\ hs.i >= 0
    /\ hs' = [hs EXCEPT !.sifting = TRUE, !.n = hs.count, !.pos = hs.i,
                        !.from = -1, !.touched = {}]
    /\ UNCHANGED <<spscVars, shellVars, srch, pool>>

\* build loop, i < 0: the extract loop starts at i = item_count - 1
SiftBuildEnd ==
    /\ hs.phase = "build"
    /\ ~hs.sifting
    /\ hs.i < 0
    /\ hs' = [hs EXCEPT !.phase = "extract", !.i = hs.count - 1,
                        !.touched = {}]
    /\ UNCHANGED <<spscVars, shellVars, srch, pool>>

\* extract loop, i > 0: swap base[0] and base[i], heapify(base, i, 0)
SiftExtractCall ==
    /\ hs.phase = "extract"
    /\ ~hs.sifting
    /\ hs.i > 0
    /\ hs' = [hs EXCEPT !.base = swap_items(hs.base, 0, hs.i),
                        !.sifting = TRUE, !.n = hs.i, !.pos = 0,
                        !.from = -1, !.touched = {0, hs.i}]
    /\ UNCHANGED <<spscVars, shellVars, srch, pool>>

\* extract loop, i == 0: return MU_STORE_ERR_NONE
SiftExtractEnd ==
    /\ hs.phase = "extract"
    /\ ~hs.sifting
    /\ hs.i = 0
    /\ hs' = [hs EXCEPT !.phase = "done", !.touched = {}]
    /\ UNCHANGED <<spscVars, shellVars, srch, pool>>

\* a heapify that calls itself on the index it was called with
SiftStep_mut ==
    /\ hs.sifting
    /\ hs' = [hs EXCEPT !.from = hs.pos, !.touched = {hs.pos}]
    /\ UNCHANGED <<spscVars, shellVars, srch, pool>>

\* the body of heapify_items / heapify_pointers for (n, pos): c1 and c2 are
\* what the comparator returns for (left, largest) and (right, largest);
\* either it swaps and calls itself on largest, or it returns and the loop
\* that called it decrements i
SiftStep ==
    /\ hs.sifting
    /\ \E c1, c2 \in CmpResults :
          LET left    == 2 * hs.pos + 1
              right   == 2 * hs.pos + 2
              l1      == IF left < hs.n /\ c1 > 0 THEN left ELSE hs.pos
              largest == IF right < hs.n /\ c2 > 0 THEN right ELSE l1
              compared == (IF left < hs.n THEN {left, hs.pos} ELSE {})
                          \cup (IF right < hs.n THEN {right, l1} ELSE {})
          IN  IF largest # hs.pos
              THEN hs' = [hs EXCEPT
                             !.base = swap_items(hs.base, hs.pos, largest),
                             !.pos = largest, !.from = hs.pos,
                             !.touched = compared \cup {hs.pos, largest}]
              ELSE hs' = [hs EXCEPT !.sifting = FALSE, !.i = hs.i - 1,
                                    !.from = -1, !.touched = compared]
    /\ UNCHANGED <<spscVars, shellVars, srch, pool>>

NextSift ==
    \/ SiftEnter
    \/ SiftBuildCall
    \/ SiftBuildEnd
    \/ SiftExtractCall
    \/ SiftExtractEnd
    \/ SiftStep

\* the calling thread keeps running
SpecSift == InitSift /\ [][NextSift]_vars /\ WF_vars(NextSift)

\* every index used is below item_count, a recursive heapify call has a
\* larger index than its caller, below n, and the array holds every element
\* of the input once
SiftSafe ==
    /\ hs.touched \subseteq 0..(hs.count - 1)
    /\ hs.sifting => hs.pos < hs.n /\ hs.n <= hs.count
    /\ (hs.sifting /\ hs.from >= 0) => hs.pos > hs.from
    /\ {hs.base[k] : k \in 0..(hs.count - 1)} = 0..(hs.count - 1)

\* C34: with any comparator, consistent or not, every index that the sort
\* passes to the comparator or to a swap is below item_count, each recursive
\* sift-down call moves to a strictly larger index below n, the array stays
\* a permutation of the input, and the call returns.
C34_SortTerminates ==
    /\ []SiftSafe
    /\ <>(hs.phase = "done")

\* C34 witness: a sort of four elements has returned after the answers of
\* the comparator moved the last element of the input to index 0 and the
\* first one to index 1
C34_Witness ==
    /\ hs.phase = "done"
    /\ hs.count = 4
    /\ hs.base[1] = 0
    /\ hs.base[0] = 3

\* C35: on a non-empty mu_queue / mu_pqueue, peek returns NONE with the
\* item that the next get returns and leaves the queue (head, tail, count,
\* storage) as it was, so a second peek returns the same item; on a
\* non-empty mu_vec, peek returns NONE with the item that the next pop
\* returns and leaves the vector as it was.
C35_PeekIsNextGet ==
    /\ (queue # NullQueue /\ queue.count > 0) =>
          LET r == mu_queue_peek(queue, TRUE) IN
          /\ r.err = MU_STORE_ERR_NONE
          /\ r.v = queue
          /\ r.item = mu_queue_get(queue).item
          /\ mu_queue_peek(r.v, TRUE).item = r.item
    /\ (pqueue # NullPqueue /\ pqueue.count > 0) =>
          LET r == mu_pqueue_peek(pqueue, TRUE) IN
          /\ r.err = MU_STORE_ERR_NONE
          /\ r.v = pqueue
          /\ r.item = mu_pqueue_get(pqueue, TRUE).item
          /\ mu_pqueue_peek(r.v, TRUE).item = r.item
    /\ (vec # NullVec /\ vec.count > 0) =>
          LET r == mu_vec_peek(vec, TRUE) IN
          /\ r.err = MU_STORE_ERR_NONE
          /\ r.v = vec
          /\ r.item = mu_vec_pop(vec).item
    /\ (call.op = "peek" /\ call.err = MU_STORE_ERR_NONE) =>
          /\ call.shell = "queue" =>
                queue = call.pre /\ call.item = <<mu_queue_get(queue).item>>
          /\ call.shell = "pqueue" =>
                pqueue = call.pre
                /\ call.item = <<mu_pqueue_get(pqueue, TRUE).item>>
          /\ call.shell = "vec" =>
                vec = call.pre /\ call.item = <<mu_vec_pop(vec).item>>

\* C35 witness: a peek returned NONE on a queue of two items whose head has
\* moved off slot 0 and whose head item differs from the other one
C35_Witness ==
    /\ call.shell = "queue"
    /\ call.op = "peek"
    /\ call.err = MU_STORE_ERR_NONE
    /\ queue.count = 2
    /\ queue.head # 0
    /\ queue.items[queue.head] # queue.items[(queue.head + 1) % queue.capacity]

(***************************************************************************)
(* Insert and delete of the two vectors as sequences of elements           *)
(***************************************************************************)
\* the elements of a vector, first to last
VecSeq(v) == [k \in 1..v.count |-> v.items[k - 1]]
PvecSeq(v) == [k \in 1..v.count |-> v.item_store[k - 1]]

\* elements[0..i) ++ [x] ++ elements[i..count)
SeqInsert(s, i, x) == SubSeq(s, 1, i) \o <<x>> \o SubSeq(s, i + 1, Len(s))
\* elements[0..i) ++ elements[i+1..count)
SeqDelete(s, i) == SubSeq(s, 1, i) \o SubSeq(s, i + 2, Len(s))

VecInsertDelete(v) ==
    /\ v.count < v.capacity =>
          \A i \in 0..v.count, x \in OpItems :
             LET r == call_mu_vec_insert(v, i, x)
                 back == mu_vec_delete(r.v, i)
             IN  /\ r.err = MU_STORE_ERR_NONE
                 /\ r.v.count = v.count + 1
                 /\ VecSeq(r.v) = SeqInsert(VecSeq(v), i, ObjAt(x))
                 /\ i = v.count => r = call_mu_vec_push(v, x)
                 /\ back.err = MU_STORE_ERR_NONE
                 /\ back.item = ObjAt(x)
                 /\ VecSeq(back.v) = VecSeq(v)
    /\ \A i \in 0..(v.count - 1) :
          LET r == mu_vec_delete(v, i)
          IN  /\ r.err = MU_STORE_ERR_NONE
              /\ r.item = v.items[i]
              /\ r.v.count = v.count - 1
              /\ VecSeq(r.v) = SeqDelete(VecSeq(v), i)

PvecInsertDelete(v) ==
    /\ v.count < v.capacity =>
          \A i \in 0..v.count, x \in OpItems :
             LET r == mu_pvec_insert(v, x, i)
                 back == mu_pvec_delete(r.v, i)
             IN  /\ r.err = MU_STORE_ERR_NONE
                 /\ r.v.count = v.count + 1
                 /\ PvecSeq(r.v) = SeqInsert(PvecSeq(v), i, x)
                 /\ i = v.count => r = mu_pvec_push(v, x)
                 /\ back.err = MU_STORE_ERR_NONE
                 /\ back.item = x
                 /\ PvecSeq(back.v) = PvecSeq(v)
    /\ \A i \in 0..(v.count - 1) :
          LET r == mu_pvec_delete(v, i)
          IN  /\ r.err = MU_STORE_ERR_NONE
              /\ r.item = v.item_store[i]
              /\ r.v.count = v.count - 1
              /\ PvecSeq(r.v) = SeqDelete(PvecSeq(v), i)

\* C36: on every vector the operations reach, insert(i, x) with i <= count
\* into a non-full vector gives elements[0..i) ++ [x] ++ elements[i..count)
\* and count + 1 (i = count is push); delete(i) with i < count returns
\* element i and gives elements[0..i) ++ elements[i+1..count) and
\* count - 1; delete(i) right after insert(i, x) returns x and restores the
\* sequence; the insert and delete calls of the behaviours agree
C36_InsertDeleteInverse ==
    /\ vec # NullVec => VecInsertDelete(vec)
    /\ pvec # NullPvec => PvecInsertDelete(pvec)
    /\ (call.shell = "vec" /\ call.err = MU_STORE_ERR_NONE) =>
          /\ call.op = "insert" =>
                \E i \in 0..call.pre.count, x \in OpItems :
                   VecSeq(vec) = SeqInsert(VecSeq(call.pre), i, ObjAt(x))
          /\ call.op = "delete" =>
                \E i \in 0..(call.pre.count - 1) :
                   /\ call.item = <<call.pre.items[i]>>
                   /\ VecSeq(vec) = SeqDelete(VecSeq(call.pre), i)
    /\ (call.shell = "pvec" /\ call.err = MU_STORE_ERR_NONE) =>
          /\ call.op = "insert" =>
                \E i \in 0..call.pre.count, x \in OpItems :
                   PvecSeq(pvec) = SeqInsert(PvecSeq(call.pre), i, x)
          /\ call.op = "delete" =>
                \E i \in 0..(call.pre.count - 1) :
                   /\ call.item = <<call.pre.item_store[i]>>
                   /\ PvecSeq(pvec) = SeqDelete(PvecSeq(call.pre), i)

\* a delete took the middle one of three different elements out
C36_Witness ==
    /\ call.shell = "vec" /\ call.op = "delete"
    /\ call.err = MU_STORE_ERR_NONE
    /\ call.pre.count = 3
    /\ Cardinality({call.pre.items[i] : i \in 0..2}) = 3
    /\ call.item = <<call.pre.items[1]>>
    /\ VecSeq(vec) = <<call.pre.items[0], call.pre.items[2]>>

(***************************************************************************)
(* find and rfind against the set of indexes that satisfy the predicate    *)
(***************************************************************************)
VecHits(v, find_fn, arg) ==
    { i \in 0..(v.count - 1) : ApplyFind(find_fn, v.items[i], arg) }
PvecHits(v, find_fn, arg) ==
    { i \in 0..(v.count - 1) : ApplyFind(find_fn, ObjAt(v.item_store[i]), arg) }

Smallest(S) == CHOOSE i \in S : \A j \in S : i <= j
Largest(S) == CHOOSE i \in S : \A j \in S : i >= j

\* f and r are the results of find and rfind on v, hits the indexes of v
\* that satisfy the predicate
FindAgrees(v, f, r, hits) ==
    /\ f.v = v /\ r.v = v
    /\ hits = {} => /\ f.err = MU_STORE_ERR_NOTFOUND
                    /\ r.err = MU_STORE_ERR_NOTFOUND
    /\ hits # {} => /\ f.err = MU_STORE_ERR_NONE /\ f.index = Smallest(hits)
                    /\ r.err = MU_STORE_ERR_NONE /\ r.index = Largest(hits)

InitAnyFree ==
    /\ SpscUnused
    /\ ShellUnused
    /\ srch = <<>>
    /\ hs = <<>>
    /\ \E n_items \in 1..MaxPoolItems, item_size \in PoolItemSizes :
          pool = [st    |-> mu_pool_init(TRUE, pool_storage, n_items, item_size,
                                         FreshStore(n_items, item_size)),
                  held  |-> {},
                  twice |-> FALSE,
                  call  |-> NoPoolCall]

AnyAlloc ==
    /\ pool # <<>>
    /\ LET r == mu_pool_alloc(pool.st)
       IN  pool' = [pool EXCEPT
                       !.st    = r.st,
                       !.held  = IF r.item = NullItem THEN @ ELSE @ \cup {r.item},
                       !.twice = r.item \in pool.held,
                       !.call  = PoolCall("alloc", r.item, r.item # NullItem)]
    /\ UNCHANGED <<spscVars, shellVars, srch, hs>>

AnyFree ==
    /\ pool # <<>>
    /\ \E item \in PoolSlots(pool.st) :
          LET r == mu_pool_free(pool.st, item)
          IN  pool' = [pool EXCEPT
                          !.st    = r.st,
                          !.held  = @ \ {item},
                          !.twice = FALSE,
                          !.call  = PoolCall("free", item, r.ret)]
    /\ UNCHANGED <<spscVars, shellVars, srch, hs>>

AnyReset ==
    /\ pool # <<>>
    /\ pool' = [pool EXCEPT
                   !.st    = mu_pool_reset(pool.st),
                   !.held  = {},
                   !.twice = FALSE,
                   !.call  = PoolCall("reset", NullItem, TRUE)]
    /\ UNCHANGED <<spscVars, shellVars, srch, hs>>

NextAnyFree ==
    \/ AnyAlloc
    \/ AnyFree
    \/ AnyReset

SpecAnyFree == InitAnyFree /\ [][NextAnyFree]_vars

\* C38: whatever slots of the pool the caller frees, a repeated free and a
\* free after a reset included, no alloc returns a slot that is still held
\* from an earlier alloc, and the free list has no cycle
C38_NoSlotHandedOutTwice ==
    pool # <<>> =>
       /\ ~pool.twice
       /\ Distinct(FreeList(pool.st, pool.st.pool.free_list,
                            pool.st.pool.n_items + 1))

(***************************************************************************)
(* mu_spsc with a producer that calls mu_spsc_put again with the same item *)
(* after MU_SPSC_ERR_FULL and a consumer that calls mu_spsc_get for ever;  *)
(* both threads are scheduled again and again                              *)
(***************************************************************************)
MaxOffers == 3      \* items the retrying producer offers, one after the other

\* drv.offered: the items the producer has offered so far, in order;
\* drv.retried: some put was called again after MU_SPSC_ERR_FULL
InitRetry ==
    /\ \E n \in StoreSizes : q = mu_spsc_init(BlankQ, BlankStore(n), n).q
    /\ prod = ProdIdle
    /\ cons = ConsIdle
    /\ put_seq = <<>>
    /\ got_seq = <<>>
    /\ drv = [offered |-> <<>>, retried |-> FALSE]
    /\ ShellUnused
    /\ AlgUnused

\* mu_spsc_put line 70, called with a new item after MU_SPSC_ERR_NONE and
\* with the item of the failed call after MU_SPSC_ERR_FULL
RetryPutLoadTail ==
    /\ prod.pc = "idle"
    /\ IF prod.err = MU_SPSC_ERR_FULL
       THEN /\ prod' = [prod EXCEPT !.pc = "p_check",
                           !.next_tail = spsc_next_index(q.tail, q.mask)]
            /\ drv' = [drv EXCEPT !.retried = TRUE]
       ELSE /\ Len(drv.offered) < MaxOffers
            /\ \E item \in ItemValues :
                  /\ prod' = [prod EXCEPT !.pc = "p_check", !.item = item,
                                 !.next_tail = spsc_next_index(q.tail, q.mask)]
                  /\ drv' = [drv EXCEPT !.offered = Append(@, item)]
    /\ UNCHANGED <<q, cons, put_seq, got_seq>>
    /\ UNCHANGED <<shellVars, algVars>>

RetryProducer == RetryPutLoadTail \/ PutCheckFull \/ PutLoadIndex
                 \/ PutStoreSlot \/ PutPublishTail

NextRetry == RetryProducer \/ Consumer

SpecRetry ==
    /\ InitRetry
    /\ [][NextRetry]_vars
    /\ WF_vars(RetryProducer)
    /\ WF_vars(Consumer)

\* a put called on q would return FULL and a get called on q EMPTY
SeesFullAndEmpty(qq) ==
    /\ spsc_is_full(spsc_next_index(qq.tail, qq.mask), qq.head)
    /\ spsc_is_empty(qq.head, qq.tail)

\* the verdicts of the two threads where both stand at their test
BothBlocked ==
    /\ prod.pc = "p_check" /\ spsc_is_full(prod.next_tail, q.head)
    /\ cons.pc = "g_check" /\ spsc_is_empty(cons.h, q.tail)

\* the three sequences only grow at their ends, and in step: what was
\* returned is the front of what was accepted, what was accepted the front
\* of what was offered
InStep ==
    /\ IsPrefix(got_seq, put_seq)
    /\ IsPrefix(put_seq, drv.offered)

\* C39: with both threads scheduled again and again, a producer that calls
\* put again after FULL and a consumer that keeps calling get, every
\* offered item is eventually accepted and every accepted item is
\* eventually returned by a get: again and again all that was offered has
\* been accepted and all that was accepted has been returned, and the
\* sequences stay in step; in no state would put return FULL and get
\* return EMPTY
C39_SpscProgress ==
    /\ [](~SeesFullAndEmpty(q) /\ ~BothBlocked /\ InStep)
    /\ []<>(put_seq = drv.offered)
    /\ []<>(got_seq = put_seq)

\* every offered item came out in order although a put had to be called
\* again after FULL and the consumer found the buffer empty in the end
C39_Witness ==
    /\ drv.retried
    /\ Len(drv.offered) = MaxOffers
    /\ got_seq = drv.offered
    /\ cons.pc = "idle" /\ cons.err = MU_SPSC_ERR_EMPTY

====
